---- MODULE Spec2Model ----
(***************************************************************************)
(* The collection core of lnd: the Bubble Tea event loop of internal/app  *)
(* (Model.Init, Model.Update and the fetch* commands) and the collectors   *)
(* it drives.  Strings are sequences of one-character strings, so that     *)
(* typing into a text input and net.ParseIP are computed, not assumed.     *)
(***************************************************************************)
EXTENDS Integers, Sequences, FiniteSets, Bags, TLC

VARIABLES
    m,          \* the app.Model value the event loop holds
    started,    \* Model.Init has run and its commands are scheduled
    quit,       \* Update returned tea.Quit: the loop has ended
    crashed,    \* an unrecovered panic terminated the process
    cmds,       \* bag of commands running in goroutines (tea.Cmd / tea.Tick)
    origin,     \* per snapshot slot: how the invocation that filled it ended
    lookups,    \* number of DNS lookups started so far
    keys,       \* number of key presses handled so far
    faults,     \* whether the environment injects start-up failures and panics
    trafficCollector,  \* TrafficCollector{lastTime, lastStats}
    now,        \* wall clock read by TrafficCollector.Collect (seconds)
    stats,      \* what the last TrafficCollector.Collect returned
    samples,    \* the readings Collect has seen: the latest one and, per interface, the one before it
    kernelCollector,  \* KernelCollector{lastRetrans, lastOutSegs}
    kernelStats,      \* the KernelMsg of the last fetchKernel
    kernelSamples,    \* the /proc/net/snmp contents Collect has read: the latest and the readable one before it
    natProbe,         \* what the network did during the last NatCollector.probe
    natInfo,          \* the NatInfo the last NatCollector.probe returned
    dnsLookup,        \* the fetchDNS command followed step by step: its arguments, the server, where it is, its result
    tunnel,           \* TunnelCollector.Collect followed step by step: Config, the test it is in, the connections open, the results
    ping,             \* what the network did during the last pingTarget and the PingResult it returned
    publicIP,         \* PublicIPCollector.Collect followed provider by provider: the seconds elapsed, what each provider was given and did, the PublicIPInfo
    natCollect,       \* NatCollector.Collect followed goroutine by goroutine: Targets, each probe's state, the channel, the results
    connectivity,     \* ConnectivityCollector.Collect followed goroutine by goroutine: Targets, the gateway, each worker's state, the mutex, the stats
    dnsCheck,         \* checkDNS: whether it ran, what the two lookups did, the DNSResult it returned
    overlap           \* two Collect calls in flight on one TrafficCollector or KernelCollector: the mutex, the collector, each call's position and locals

loopVars == <<m, started, quit, crashed, cmds, origin, lookups, keys, faults>>
trafficVars == <<trafficCollector, now, stats, samples>>
kernelVars == <<kernelCollector, kernelStats, kernelSamples>>
natVars == <<natProbe, natInfo>>
probeVars == <<tunnel, ping, publicIP, natCollect, connectivity, dnsCheck, overlap>>
collectorVars == <<trafficVars, kernelVars, natVars, dnsLookup, probeVars>>
vars == <<loopVars, collectorVars>>

-----------------------------------------------------------------------------
(* Bounds of the model *)

MaxKeys == 4        \* key presses per run
MaxFaultKeys == 3   \* key presses per run when faults are injected
MaxInputLen == 2    \* characters typed into the DNS domain input
MaxDomainLen == 3    \* characters of the domain of a DNS lookup
MaxTunnels == 2      \* tunnels of a TunnelCollector's configuration
MaxProviders == 4    \* providers of the PublicIPCollector's list that are followed
MaxStunTargets == 3  \* targets of a NatCollector
MaxTime == 4        \* seconds of wall clock the traffic collector is followed for

-----------------------------------------------------------------------------
(* internal/app/model.go: constants *)

TabInterfaces == 0
TabConnectivity == 1
TabDashboard == 2
TabKernel == 3
TabDNS == 4
TabAbout == 5

tabs == <<"Interfaces", "Connectivity", "Dashboard", "Kernel", "DNS", "About">>

dnsRecordTypes == <<"Auto", "A", "AAAA", "CNAME", "MX", "TXT", "NS", "PTR", "SRV", "CAA">>

dnsProtocols == <<"UDP", "TCP", "DoT", "DoH">>

\* collector.DefaultDNSServers with "Custom" moved to the end by NewModel; the
\* default configuration adds no server.  An address is a one-token string.
DNSServers ==
    << [Name |-> "System",     Address |-> <<>>,               Proto |-> "UDP"],
       [Name |-> "Google",     Address |-> <<"8.8.8.8:53">>,   Proto |-> "UDP"],
       [Name |-> "Cloudflare", Address |-> <<"1.1.1.1:53">>,   Proto |-> "UDP"],
       [Name |-> "AliDNS",     Address |-> <<"223.5.5.5:53">>, Proto |-> "UDP"],
       [Name |-> "Custom",     Address |-> <<>>,               Proto |-> "DoT"] >>

NoError == "nil"

\* TrafficStats before the first Collect, and the empty record of readings
NoStats == [Interfaces |-> <<>>, Timestamp |-> 0, err |-> NoError]
NoSamples ==
    [prior |-> <<>>, last |-> 0, time |-> 0, counters |-> <<>>, ok |-> FALSE]

\* The zero KernelStats, and the empty record of /proc/net/snmp contents
NoKernelStats ==
    [TCPRetransRate |-> [num |-> 0, den |-> 1], TCPEstablished |-> 0,
     UDPRcvbufErrors |-> 0, Error |-> NoError]
NoFile == [readable |-> FALSE, lines |-> <<>>]
NoKernelSamples ==
    [called |-> FALSE, count |-> 0, prior |-> NoFile, file |-> NoFile, ok |-> FALSE]

\* NatType, internal/collector/nat.go
NatOpenInternet == "Open Internet"
NatFullCone == "Full Cone"
NatRestrictedCone == "Restricted Cone"
NatPortRestrictedCone == "Port Restricted Cone"
NatSymmetric == "Symmetric NAT"
NatUdpBlocked == "UDP Blocked"
NatUnknown == "Unknown"
NatBehindNat == "Behind NAT (Type Unknown)"

\* The zero NatInfo, and the network before any probe
NoNatInfo == [NatType |-> "", PublicIP |-> "", LocalIP |-> "", Error |-> NoError]
NoProbe ==
    [probed |-> FALSE, dial |-> FALSE, client |-> FALSE, localIP |-> "", send |-> FALSE,
     event |-> "", xor |-> "", mapped |-> "", other |-> FALSE, raced |-> FALSE]

\* The zero DNSLookupResult, no question, and the lookup not yet started
NoResult == [Error |-> NoError, Protocol |-> "", CertInfo |-> FALSE, answered |-> FALSE]
NoQuery == [name |-> <<>>, qtype |-> ""]
NoLookup ==
    [pc |-> "idle", domain |-> <<>>, recordType |-> "", proto |-> "", silent |-> FALSE,
     query |-> NoQuery, net |-> "", result |-> NoResult]

\* What one tunnel test did: whether it dialed, whether a connection was
\* opened, whether dialTransport returned it, whether checkApplication ran,
\* and what it read
NoReply == [err |-> FALSE, status |-> 0, ver |-> 0, method |-> 0]
NoTest ==
    [dialed |-> FALSE, opened |-> FALSE, established |-> FALSE, checked |-> FALSE,
     reply |-> NoReply]

\* TunnelCollector before Collect
NoTunnels ==
    [pc |-> "idle", Config |-> <<>>, i |-> 0, silent |-> FALSE, open |-> 0,
     results |-> <<>>, log |-> <<>>, cur |-> NoTest]

\* The zero PingResult, and ConnectivityCollector.Ping not yet called
NoPingResult ==
    [Target |-> "", PacketLoss |-> 0, MinRtt |-> 0, AvgRtt |-> 0, MaxRtt |-> 0,
     Error |-> NoError]
NoPing == [called |-> FALSE, env |-> <<>>, res |-> NoPingResult]

\* The zero PublicIPInfo, and PublicIPCollector.Collect not yet called
NoPublicIPInfo == [IP |-> <<>>, Provider |-> "", Error |-> NoError]
NoPublicIP == [pc |-> "idle", i |-> 0, elapsed |-> 0, log |-> <<>>, info |-> NoPublicIPInfo]

\* NatCollector before Collect
NoNatCollect ==
    [pc |-> "idle", Targets |-> <<>>, workers |-> <<>>, cap |-> 0, ch |-> <<>>,
     results |-> <<>>]

\* ConnectivityCollector before Collect
NoConnectivity ==
    [pc |-> "idle", Targets |-> <<>>, configured |-> <<>>, gw |-> "", targetsToPing |-> <<>>,
     workers |-> <<>>, mu |-> 0, stats |-> [Targets |-> <<>>, DNS |-> FALSE]]

\* DNSResult{} and a checkDNS that has not run
NoDNSResult == [LocalResolverTime |-> 0, PublicResolverTime |-> 0, Error |-> NoError]

NoDNSCheck == [called |-> FALSE, env |-> NoError, res |-> NoDNSResult]

\* A TrafficCollector and a KernelCollector as their constructors leave them,
\* with no Collect in flight
NoOverlap ==
    [kind |-> "", mu |-> 0, clock |-> 1,
     c |-> [traffic |-> [lastTime |-> 0, lastStats |-> <<>>],
            kernel |-> [lastRetrans |-> 0, lastOutSegs |-> 0]],
     c0 |-> [traffic |-> [lastTime |-> 0, lastStats |-> <<>>],
             kernel |-> [lastRetrans |-> 0, lastOutSegs |-> 0]],
     g |-> <<>>, order |-> <<>>]

-----------------------------------------------------------------------------
(* Strings *)

HexDigits == {"a", "1"}

\* The fields of s separated by the character sep (strings.Split).
RECURSIVE Split(_, _)
Split(s, sep) ==
    IF \A i \in 1..Len(s) : s[i] # sep
    THEN <<s>>
    ELSE LET i == CHOOSE j \in 1..Len(s) :
                      s[j] = sep /\ \A k \in 1..(j - 1) : s[k] # sep
         IN  <<SubSeq(s, 1, i - 1)>> \o Split(SubSeq(s, i + 1, Len(s)), sep)

\* net.ParseIP on strings over ':' and hexadecimal digits: an IPv6 literal
\* is eight groups of 1..4 hex digits separated by ':', or fewer groups with
\* exactly one "::" standing for the missing ones.
ParseIP(s) ==
    LET g     == Split(s, ":")
        n     == Len(g)
        IsGrp(x) == Len(x) \in 1..4 /\ \A i \in 1..Len(x) : x[i] \in HexDigits
        empty == {i \in 1..n : g[i] = <<>>}
        full  == {i \in 1..n : g[i] # <<>>}
    IN  /\ \A i \in 1..Len(s) : s[i] \in HexDigits \cup {":"}
        /\ \A i \in full : IsGrp(g[i])
        /\ \/ empty = {} /\ n = 8
           \/ /\ n >= 3
              /\ Cardinality(full) <= 7
              /\ \/ empty = {1, 2}                       \* "::x..."
                 \/ empty = {n - 1, n}                   \* "...x::"
                 \/ empty = {1, 2, 3} /\ n = 3           \* "::"
                 \/ \E i \in 2..(n - 1) : empty = {i}    \* "x::y"

-----------------------------------------------------------------------------
(* Snapshots and messages *)

\* A snapshot as the loop sees it: what the data fields hold, the Error
\* field (NoError when the type has none or it is nil), the lookup it
\* answers (DNS and its ping), the answer records, and for a DNS result
\* the domain its lookup was started with (kept for the properties only).
Snap(data, err) ==
    [data |-> data, Error |-> err, seq |-> 0, Records |-> <<>>, domain |-> <<>>]

\* The zero value of a snapshot slot (a nil pointer for DNSResult, DNSPing).
None == Snap("none", NoError)

IPRecord == << <<"a">>, <<"A">>, <<":", ":", "1">> >>      \* "a A ::1"
NameRecord == << <<"a">>, <<"C">>, <<"a", "a">> >>         \* "a C aa"

NoServer == [Name |-> "", Address |-> <<>>, Proto |-> ""]

Msg(kind, snap) == [kind |-> kind, key |-> "", snap |-> snap]
KeyMsg(k) == [kind |-> "KeyMsg", key |-> k, snap |-> None]
TickMsg == Msg("TickMsg", None)
WindowSizeMsg == Msg("WindowSizeMsg", None)

\* A command: the function a goroutine runs and the arguments it closed over.
Cmd(name) ==
    [cmd |-> name, seq |-> 0, domain |-> <<>>, recordType |-> "", server |-> NoServer,
     target |-> <<>>]

TeaQuit == Cmd("tea.Quit")

\* tea.Tick(1*time.Second, ...) returning a TickMsg
tickTraffic == Cmd("tick")

\* tea.Tick(5*time.Second, ...) whose callback runs fetchConnectivity
connTick == Cmd("connTick")

fetchSystemInfo == Cmd("fetchSystemInfo")
fetchConnectivity == Cmd("fetchConnectivity")
fetchNatInfo == Cmd("fetchNatInfo")
fetchTraffic == Cmd("fetchTraffic")
fetchKernel == Cmd("fetchKernel")

fetchDNS(seq, domain, recordType, server) ==
    [Cmd("fetchDNS") EXCEPT !.seq = seq, !.domain = domain,
                            !.recordType = recordType, !.server = server]

fetchSinglePing(seq, target) ==
    [Cmd("fetchSinglePing") EXCEPT !.seq = seq, !.target = target]

-----------------------------------------------------------------------------
(* bubbles/textinput: the value and the cursor of a focused input *)

CharLimit == 255

TextInput(value) == [value |-> value, pos |-> Len(value)]

IsRune(k) == k \in HexDigits \cup {":", "q"}

\* textinput.Model.Update for a key message
TextInputUpdate(in, k) ==
    IF IsRune(k) /\ Len(in.value) < CharLimit
    THEN [value |-> SubSeq(in.value, 1, in.pos) \o <<k>>
                    \o SubSeq(in.value, in.pos + 1, Len(in.value)),
          pos |-> in.pos + 1]
    ELSE IF k = "backspace" /\ in.pos > 0
    THEN [value |-> SubSeq(in.value, 1, in.pos - 1)
                    \o SubSeq(in.value, in.pos + 1, Len(in.value)),
          pos |-> in.pos - 1]
    ELSE IF k = "left" /\ in.pos > 0 THEN [in EXCEPT !.pos = in.pos - 1]
    ELSE IF k = "right" /\ in.pos < Len(in.value) THEN [in EXCEPT !.pos = in.pos + 1]
    ELSE in

-----------------------------------------------------------------------------
(* internal/app/model.go: the Model *)

NewModel ==
    [ActiveTab |-> 0,
     HostInfo |-> None, Connectivity |-> None, Traffic |-> None, Kernel |-> None,
     NatInfo |-> None, DNSResult |-> None, DNSPing |-> None,
     DNSInput |-> TextInput(<<>>), DNSServerInput |-> TextInput(<<>>),
     DNSFocus |-> 0, SelectedDNSServer |-> 0, SelectedRecordType |-> 0,
     SelectedProtocol |-> 0,
     LoadingSystem |-> TRUE, LoadingConn |-> TRUE, LoadingTraffic |-> FALSE,
     LoadingKernel |-> FALSE, LoadingNat |-> TRUE, LoadingDNS |-> FALSE,
     LoadingDNSPing |-> FALSE]

\* Model.Init: the commands of the initial batch
ModelInit == <<fetchSystemInfo, fetchConnectivity, fetchNatInfo, tickTraffic>>

\* The index in dnsProtocols (0-based) of the server's protocol; the
\* selection is kept when the protocol is not in the list.
SyncProtocol(mm, sel) ==
    LET proto == DNSServers[sel + 1].Proto
        hits  == {i \in 1..Len(dnsProtocols) : dnsProtocols[i] = proto}
    IN  IF hits = {} THEN mm.SelectedProtocol
        ELSE (CHOOSE i \in hits : \A j \in hits : i <= j) - 1

\* case tea.KeyMsg on the DNS tab, after "enter" has been dealt with: the
\* selection keys, then the key goes to the focused text input.
UpdateDNSKey(mm, k) ==
    LET isCustom == DNSServers[mm.SelectedDNSServer + 1].Name = "Custom"
        down == (mm.SelectedDNSServer + 1) % Len(DNSServers)
        up   == (mm.SelectedDNSServer - 1 + Len(DNSServers)) % Len(DNSServers)
        m1 == CASE k = "down" ->
                     [mm EXCEPT !.SelectedDNSServer = down, !.DNSFocus = 0,
                                !.SelectedProtocol = SyncProtocol(mm, down)]
                [] k = "up" ->
                     [mm EXCEPT !.SelectedDNSServer = up, !.DNSFocus = 0,
                                !.SelectedProtocol = SyncProtocol(mm, up)]
                [] k = "ctrl+down" ->
                     IF isCustom THEN [mm EXCEPT !.DNSFocus = 1] ELSE mm
                [] k = "ctrl+up" -> [mm EXCEPT !.DNSFocus = 0]
                [] k = "ctrl+t" ->
                     [mm EXCEPT !.SelectedRecordType =
                                    (mm.SelectedRecordType + 1) % Len(dnsRecordTypes)]
                [] k = "ctrl+p" ->
                     [mm EXCEPT !.SelectedProtocol =
                                    (mm.SelectedProtocol + 1) % Len(dnsProtocols)]
                [] OTHER -> mm
    IN  IF m1.DNSFocus = 0
        THEN [m1 EXCEPT !.DNSInput = TextInputUpdate(m1.DNSInput, k)]
        ELSE [m1 EXCEPT !.DNSServerInput = TextInputUpdate(m1.DNSServerInput, k)]

\* case "enter" on the DNS tab: the lookup command for the current selection
EnterLookup(mm) ==
    LET server0 == DNSServers[mm.SelectedDNSServer + 1]
        server1 == IF server0.Name = "Custom"
                   THEN [server0 EXCEPT !.Address = mm.DNSServerInput.value]
                   ELSE server0
        server  == [server1 EXCEPT !.Proto = dnsProtocols[mm.SelectedProtocol + 1]]
    IN  fetchDNS(0, mm.DNSInput.value, dnsRecordTypes[mm.SelectedRecordType + 1], server)

\* case tea.KeyMsg
UpdateKey(mm, k) ==
    IF k \in {"q", "ctrl+c"} THEN [m |-> mm, cmds |-> <<TeaQuit>>]
    ELSE IF k = "tab"
    THEN [m |-> [mm EXCEPT !.ActiveTab = (mm.ActiveTab + 1) % Len(tabs)], cmds |-> <<>>]
    ELSE IF k = "shift+tab"
    THEN [m |-> [mm EXCEPT !.ActiveTab = (mm.ActiveTab - 1 + Len(tabs)) % Len(tabs)],
          cmds |-> <<>>]
    ELSE IF mm.ActiveTab = TabDNS
    THEN IF k = "enter"
         THEN [m |-> [mm EXCEPT !.LoadingDNS = TRUE, !.DNSResult = None, !.DNSPing = None],
               cmds |-> <<EnterLookup(mm)>>]
         ELSE [m |-> UpdateDNSKey(mm, k), cmds |-> <<>>]
    ELSE IF k = "right"
    THEN [m |-> [mm EXCEPT !.ActiveTab = (mm.ActiveTab + 1) % Len(tabs)], cmds |-> <<>>]
    ELSE IF k = "left"
    THEN [m |-> [mm EXCEPT !.ActiveTab = (mm.ActiveTab - 1 + Len(tabs)) % Len(tabs)],
          cmds |-> <<>>]
    ELSE [m |-> mm, cmds |-> <<>>]

\* The target of the ping that follows a successful lookup: the text of the
\* domain input if it is an IP, else the last field of the first record
\* whose last field is an IP, else "".
PingTarget(mm, res) ==
    LET hits == {i \in 1..Len(res.Records) :
                    /\ Len(res.Records[i]) > 0
                    /\ ParseIP(res.Records[i][Len(res.Records[i])])}
    IN  IF ParseIP(mm.DNSInput.value) THEN mm.DNSInput.value
        ELSE IF hits = {} THEN <<>>
        ELSE LET i == CHOOSE j \in hits : \A h \in hits : j <= h
             IN  res.Records[i][Len(res.Records[i])]

\* case DNSMsg
UpdateDNSMsg(mm, res) ==
    LET m1 == [mm EXCEPT !.LoadingDNS = FALSE, !.DNSResult = res]
        target == PingTarget(mm, res)
    IN  IF res.Error = NoError /\ target # <<>>
        THEN [m |-> [m1 EXCEPT !.LoadingDNSPing = TRUE],
              cmds |-> <<fetchSinglePing(res.seq, target)>>]
        ELSE [m |-> m1, cmds |-> <<>>]

\* UpdateTick without the loading-flag guards
UpdateTickUnguarded(mm) ==
    [m |-> [mm EXCEPT !.LoadingTraffic = TRUE, !.LoadingKernel = TRUE],
     cmds |-> <<fetchTraffic, fetchKernel, tickTraffic>>]

\* UpdateTick that arms the next tick only when it spawned a probe
UpdateTickNoReschedule(mm) ==
    LET c1 == IF ~mm.LoadingTraffic THEN <<fetchTraffic>> ELSE <<>>
        c2 == IF ~mm.LoadingKernel THEN <<fetchKernel>> ELSE <<>>
    IN  [m |-> [mm EXCEPT !.LoadingTraffic = TRUE, !.LoadingKernel = TRUE],
         cmds |-> c1 \o c2 \o (IF c1 \o c2 = <<>> THEN <<>> ELSE <<tickTraffic>>)]

\* UpdateTick that starts the kernel probe only when no traffic probe is
\* in flight
UpdateTickCoupled(mm) ==
    LET c1 == IF ~mm.LoadingTraffic THEN <<fetchTraffic>> ELSE <<>>
        c2 == IF ~mm.LoadingKernel /\ ~mm.LoadingTraffic THEN <<fetchKernel>> ELSE <<>>
    IN  [m |-> [mm EXCEPT !.LoadingTraffic = TRUE,
                          !.LoadingKernel = mm.LoadingKernel \/ ~mm.LoadingTraffic],
         cmds |-> c1 \o c2 \o <<tickTraffic>>]

\* case TickMsg
UpdateTick(mm) ==
    LET c1 == IF ~mm.LoadingTraffic THEN <<fetchTraffic>> ELSE <<>>
        c2 == IF ~mm.LoadingKernel THEN <<fetchKernel>> ELSE <<>>
    IN  [m |-> [mm EXCEPT !.LoadingTraffic = TRUE, !.LoadingKernel = TRUE],
         cmds |-> c1 \o c2 \o <<tickTraffic>>]

\* UpdateConnectivity that also restarts the probe at once
UpdateConnectivityForked(mm, snap) ==
    [m |-> [mm EXCEPT !.Connectivity = snap, !.LoadingConn = FALSE],
     cmds |-> <<fetchConnectivity, connTick>>]

\* case ConnectivityMsg
UpdateConnectivity(mm, snap) ==
    [m |-> [mm EXCEPT !.Connectivity = snap, !.LoadingConn = FALSE],
     cmds |-> <<connTick>>]

\* UpdateTraffic that keeps the flag set when the sample is empty
UpdateTrafficKeepsFlag(mm, snap) ==
    [m |-> [mm EXCEPT !.LoadingTraffic = (snap.data = "empty"), !.Traffic = snap],
     cmds |-> <<>>]

\* case TrafficMsg
UpdateTraffic(mm, snap) ==
    [m |-> [mm EXCEPT !.LoadingTraffic = FALSE, !.Traffic = snap], cmds |-> <<>>]

\* case KernelMsg
UpdateKernel(mm, snap) ==
    [m |-> [mm EXCEPT !.LoadingKernel = FALSE, !.Kernel = snap], cmds |-> <<>>]

\* case SystemInfoMsg
UpdateSystemInfo(mm, snap) ==
    [m |-> [mm EXCEPT !.HostInfo = snap, !.LoadingSystem = FALSE], cmds |-> <<>>]

\* UpdateNat that probes again when an item failed
UpdateNatRetries(mm, snap) ==
    [m |-> [mm EXCEPT !.NatInfo = snap, !.LoadingNat = FALSE],
     cmds |-> IF snap.data = "valid" THEN <<fetchNatInfo>> ELSE <<>>]

\* case NatMsg
UpdateNat(mm, snap) ==
    [m |-> [mm EXCEPT !.NatInfo = snap, !.LoadingNat = FALSE], cmds |-> <<>>]

\* case DNSPingMsg
UpdateDNSPing(mm, snap) ==
    [m |-> [mm EXCEPT !.LoadingDNSPing = FALSE, !.DNSPing = snap], cmds |-> <<>>]

\* Model.Update: the new model and the batch of commands it returns
Update(mm, msg) ==
    CASE msg.kind = "KeyMsg" -> UpdateKey(mm, msg.key)
      [] msg.kind = "SystemInfoMsg" -> UpdateSystemInfo(mm, msg.snap)
      [] msg.kind = "ConnectivityMsg" -> UpdateConnectivity(mm, msg.snap)
      [] msg.kind = "NatMsg" -> UpdateNat(mm, msg.snap)
      [] msg.kind = "TrafficMsg" -> UpdateTraffic(mm, msg.snap)
      [] msg.kind = "KernelMsg" -> UpdateKernel(mm, msg.snap)
      [] msg.kind = "DNSMsg" -> UpdateDNSMsg(mm, msg.snap)
      [] msg.kind = "DNSPingMsg" -> UpdateDNSPing(mm, msg.snap)
      [] msg.kind = "TickMsg" -> UpdateTick(mm)
      [] OTHER -> [m |-> mm, cmds |-> <<>>]       \* tea.WindowSizeMsg: layout only

-----------------------------------------------------------------------------
(* The collectors as the event loop sees them: how an invocation ends is   *)
(* the environment's choice ("ok", a failure of its source, a panic in its *)
(* body), what it returns then is the collector's code.                    *)

Returned(snap, err) == [snap |-> snap, err |-> err]

\* SystemCollector.Collect: host.Info failing sets info.Error and returns a
\* nil error; the deferred recover sets both.
SystemCollect(o) ==
    CASE o = "ok"    -> Returned(Snap("valid", NoError), NoError)
      [] o = "fail"  -> Returned(Snap("partial", "err"), NoError)
      [] o = "panic" -> Returned(Snap("partial", "panic"), "panic")

\* ConnectivityCollector.Collect: ConnectivityStats has no Error field; a
\* failing target is an error inside its PingResult; the deferred recover
\* sets the returned error only.
ConnectivityCollect(o) ==
    CASE o = "ok"    -> Returned(Snap("valid", NoError), NoError)
      [] o = "fail"  -> Returned(Snap("items-failed", NoError), NoError)
      [] o = "panic" -> Returned(Snap("partial", NoError), "panic")

\* NatCollector.Collect: always a nil error; a failing probe is an error
\* inside its NatInfo.
NatCollect(o) ==
    CASE o = "ok"    -> Returned(Snap("valid", NoError), NoError)
      [] o = "fail"  -> Returned(Snap("items-failed", "err"), NoError)

\* TrafficCollector.Collect: TrafficStats has no Error field; a failed
\* counter read returns the empty interface map and the error; the deferred
\* recover sets the returned error.
TrafficCollectResult(o) ==
    CASE o = "ok"    -> Returned(Snap("valid", NoError), NoError)
      [] o = "fail"  -> Returned(Snap("empty", NoError), "err")
      [] o = "panic" -> Returned(Snap("partial", NoError), "panic")

\* KernelCollector.Collect: a failed read of /proc/net/snmp returns the zero
\* stats and the error; the deferred recover sets stats.Error too.
KernelCollect(o) ==
    CASE o = "ok"    -> Returned(Snap("valid", NoError), NoError)
      [] o = "fail"  -> Returned(Snap("empty", NoError), "err")
      [] o = "panic" -> Returned(Snap("partial", "panic"), "panic")

\* DNSCollector.Lookup as the loop sees it: answers with an address record,
\* answers without one, or a result with Error set.
Lookup(c, o) ==
    CASE o = "ok"   -> [Snap("valid", NoError) EXCEPT !.seq = c.seq, !.Records = <<IPRecord>>, !.domain = c.domain]
      [] o = "noip" -> [Snap("valid", NoError) EXCEPT !.seq = c.seq, !.Records = <<NameRecord>>, !.domain = c.domain]
      [] o = "fail" -> [Snap("empty", "err") EXCEPT !.seq = c.seq, !.domain = c.domain]

\* ConnectivityCollector.Ping
Ping(c, o) ==
    CASE o = "ok"   -> [Snap("valid", NoError) EXCEPT !.seq = c.seq]
      [] o = "fail" -> [Snap("empty", "err") EXCEPT !.seq = c.seq]

\* The collectors whose Collect installs a deferred recover around the body
\* the command's goroutine runs.
Recovers(name) ==
    name \in {"fetchSystemInfo", "fetchConnectivity", "fetchTraffic", "fetchKernel"}

\* How an invocation of a command may end: the failures of the sources the
\* loop's periodic and one-shot probes read, and, when faults are injected,
\* the failures of the start-up probes and a panic in each probe body.
\* "workerpanic" is a panic in one of the goroutines
\* ConnectivityCollector.Collect starts.
Outcomes(name) ==
    LET base == CASE name \in {"fetchTraffic", "fetchKernel", "fetchSinglePing"} -> {"ok", "fail"}
                  [] name = "fetchDNS" -> {"ok", "noip", "fail"}
                  [] OTHER -> {"ok"}
        more == CASE name \in {"fetchSystemInfo", "fetchNatInfo"} -> {"fail", "panic"}
                  [] name = "fetchConnectivity" -> {"fail", "panic", "workerpanic"}
                  [] name \in {"fetchTraffic", "fetchKernel", "fetchDNS", "fetchSinglePing"} ->
                        {"panic"}
                  [] OTHER -> {}
    IN  IF faults THEN base \cup more ELSE base

\* The process dies: the panic is raised where no deferred recover covers it.
Crashes(name, o) ==
    \/ o = "workerpanic"
    \/ o = "panic" /\ ~Recovers(name)

\* The message a command returns (the func() tea.Msg bodies of fetch*).
RunCmd(c, o) ==
    CASE c.cmd = "fetchSystemInfo" ->
            LET r == SystemCollect(o)
            IN  Msg("SystemInfoMsg",
                    IF r.err # NoError THEN [r.snap EXCEPT !.Error = r.err] ELSE r.snap)
      [] c.cmd = "fetchConnectivity" -> Msg("ConnectivityMsg", ConnectivityCollect(o).snap)
      [] c.cmd = "fetchNatInfo" ->
            LET r == NatCollect(o)
            IN  Msg("NatMsg", IF r.err # NoError THEN Snap("empty", r.err) ELSE r.snap)
      [] c.cmd = "fetchTraffic" -> Msg("TrafficMsg", TrafficCollectResult(o).snap)
      [] c.cmd = "fetchKernel" ->
            LET r == KernelCollect(o)
            IN  Msg("KernelMsg",
                    IF r.err # NoError THEN [r.snap EXCEPT !.Error = r.err] ELSE r.snap)
      [] c.cmd = "fetchDNS" -> Msg("DNSMsg", Lookup(c, o))
      [] c.cmd = "fetchSinglePing" -> Msg("DNSPingMsg", Ping(c, o))
      [] c.cmd = "tick" -> TickMsg

-----------------------------------------------------------------------------
(* The Bubble Tea runtime: commands run in goroutines and hand their       *)
(* message to the loop over an unbuffered channel, so a command's return   *)
(* and the Update call that handles its message are one step.              *)

NoOrigin ==
    [SystemInfoMsg |-> "", ConnectivityMsg |-> "", NatMsg |-> "", TrafficMsg |-> "",
     KernelMsg |-> "", DNSMsg |-> "", DNSPingMsg |-> "", TickMsg |-> ""]

\* The commands of a batch as a bag; the n-th lookup started is stamped n.
RECURSIVE Batch(_, _)
Batch(cs, n) ==
    IF cs = <<>> THEN EmptyBag
    ELSE LET c == Head(cs)
         IN  IF c.cmd = "fetchDNS"
             THEN SetToBag({[c EXCEPT !.seq = n + 1]}) (+) Batch(Tail(cs), n + 1)
             ELSE SetToBag({c}) (+) Batch(Tail(cs), n)

Starts(cs, name) == Cardinality({i \in 1..Len(cs) : cs[i].cmd = name})

Running == started /\ ~quit /\ ~crashed

\* The collectors as NewModel constructs them, before any Collect
CollectorsInit ==
    /\ trafficCollector = [lastTime |-> 0, lastStats |-> <<>>]
    /\ now = 1
    /\ stats = NoStats
    /\ samples = NoSamples
    /\ kernelCollector = [lastRetrans |-> 0, lastOutSegs |-> 0]
    /\ kernelStats = NoKernelStats
    /\ kernelSamples = NoKernelSamples
    /\ natProbe = NoProbe
    /\ natInfo = NoNatInfo
    /\ dnsLookup = NoLookup
    /\ tunnel = NoTunnels
    /\ ping = NoPing
    /\ publicIP = NoPublicIP
    /\ natCollect = NoNatCollect
    /\ connectivity = NoConnectivity
    /\ dnsCheck = NoDNSCheck
    /\ overlap = NoOverlap

Init ==
    /\ m = NewModel
    /\ started = FALSE
    /\ quit = FALSE
    /\ crashed = FALSE
    /\ cmds = EmptyBag
    /\ origin = NoOrigin
    /\ lookups = 0
    /\ keys = 0
    /\ faults = FALSE
    /\ CollectorsInit

\* tea.Program.Run: Model.Init's batch is scheduled
ProgramStart ==
    /\ ~started
    /\ started' = TRUE
    /\ cmds' = Batch(ModelInit, lookups)
    /\ UNCHANGED <<m, quit, crashed, origin, lookups, keys, faults>>
    /\ UNCHANGED collectorVars

\* The loop handles msg, which the finished command (if any) returned.  On
\* tea.Quit the program exits and its goroutines end with the process.
Handle(msg, done) ==
    LET r == Update(m, msg)
    IN  /\ m' = r.m
        /\ IF Starts(r.cmds, "tea.Quit") > 0
           THEN quit' = TRUE /\ cmds' = EmptyBag /\ UNCHANGED lookups
           ELSE /\ quit' = FALSE
                /\ cmds' = (cmds (-) done) (+) Batch(r.cmds, lookups)
                /\ lookups' = lookups + Starts(r.cmds, "fetchDNS")
        /\ UNCHANGED <<started, crashed, faults>>
        /\ UNCHANGED collectorVars

\* The keys the user presses
Keys == {"q", "tab", "shift+tab", "enter", ":"}

\* The user presses a key
KeyPress(k) ==
    /\ Running
    /\ keys < (IF faults THEN MaxFaultKeys ELSE MaxKeys)
    /\ IsRune(k) => m.ActiveTab = TabDNS /\ Len(m.DNSInput.value) < MaxInputLen
    /\ keys' = keys + 1
    /\ Handle(KeyMsg(k), EmptyBag)
    /\ UNCHANGED origin

\* A command's goroutine returns and its message is handled, or its panic
\* ends the process.
Deliver(c, o) ==
    /\ Running
    /\ BagIn(c, cmds)
    /\ IF Crashes(c.cmd, o)
       THEN /\ crashed' = TRUE
            /\ cmds' = EmptyBag
            /\ UNCHANGED <<m, started, quit, origin, lookups, keys, faults>>
            /\ UNCHANGED collectorVars
       ELSE LET msg == RunCmd(c, o)
            IN  /\ Handle(msg, SetToBag({c}))
                /\ origin' = [origin EXCEPT ![msg.kind] = o]
                /\ UNCHANGED keys

\* The one-second timer fires and the TickMsg is handled
Tick == Deliver(tickTraffic, "ok")

\* The five-second timer fires: its callback starts fetchConnectivity
ConnTimer ==
    /\ Running
    /\ BagIn(connTick, cmds)
    /\ cmds' = (cmds (-) SetToBag({connTick})) (+) SetToBag({fetchConnectivity})
    /\ UNCHANGED <<m, started, quit, crashed, origin, lookups, keys, faults>>
    /\ UNCHANGED collectorVars

SystemDone == \E o \in Outcomes("fetchSystemInfo") : Deliver(fetchSystemInfo, o)
ConnectivityDone == \E o \in Outcomes("fetchConnectivity") : Deliver(fetchConnectivity, o)
NatDone == \E o \in Outcomes("fetchNatInfo") : Deliver(fetchNatInfo, o)
TrafficDone == \E o \in Outcomes("fetchTraffic") : Deliver(fetchTraffic, o)
KernelDone == \E o \in Outcomes("fetchKernel") : Deliver(fetchKernel, o)
DNSDone ==
    \E c \in BagToSet(cmds) : \E o \in Outcomes("fetchDNS") :
        c.cmd = "fetchDNS" /\ Deliver(c, o)
DNSPingDone ==
    \E c \in BagToSet(cmds) : \E o \in Outcomes("fetchSinglePing") :
        c.cmd = "fetchSinglePing" /\ Deliver(c, o)

Next ==
    \/ ProgramStart
    \/ \E k \in Keys : KeyPress(k)
    \/ Tick
    \/ ConnTimer
    \/ SystemDone
    \/ ConnectivityDone
    \/ NatDone
    \/ TrafficDone
    \/ KernelDone
    \/ DNSDone
    \/ DNSPingDone

Spec == Init /\ [][Next]_vars

\* The program on the DNS tab: started, shift+tab pressed twice, nothing
\* delivered yet; keys counts the presses that follow.
InitDNSTab ==
    /\ m = UpdateKey(UpdateKey(NewModel, "shift+tab").m, "shift+tab").m
    /\ started = TRUE
    /\ quit = FALSE
    /\ crashed = FALSE
    /\ cmds = Batch(ModelInit, 0)
    /\ origin = NoOrigin
    /\ lookups = 0
    /\ keys = 0
    /\ faults = FALSE
    /\ CollectorsInit

\* The user at the DNS tab and the lookups and pings they start; the
\* periodic probes stay in flight.
DNSTabNext ==
    \/ \E k \in Keys : KeyPress(k)
    \/ DNSDone
    \/ DNSPingDone

DNSTabSpec == InitDNSTab /\ [][DNSTabNext]_vars

\* The same program when probes may also panic and start-up probes fail
InitFaults ==
    /\ m = NewModel
    /\ started = FALSE
    /\ quit = FALSE
    /\ crashed = FALSE
    /\ cmds = EmptyBag
    /\ origin = NoOrigin
    /\ lookups = 0
    /\ keys = 0
    /\ faults = TRUE
    /\ CollectorsInit

FaultSpec == InitFaults /\ [][Next]_vars

-----------------------------------------------------------------------------
(* TrafficCollector.Collect, src/internal/ui/styles.go *)

Interfaces == {"eth0", "lo"}
CounterValues == {1000, 3048}
Elapsed == {0, 1, 2}

\* net.IOCounters(true): one IOCountersStat per interface that is present
Readings ==
    UNION {[S -> [BytesRecv : CounterValues, BytesSent : CounterValues]] :
             S \in SUBSET Interfaces}

\* A float64 rate, kept as the quotient the code computes
Rate(delta, duration) == [num |-> delta, den |-> duration]
ZeroRate == Rate(0, 1)
RateEq(a, b) == a.num * b.den = b.num * a.den


\* InterfaceTraffic with both rates taken only when both counters grew
InterfaceTrafficCoupled(c, t, name, counter) ==
    LET hasLast == /\ c.lastTime # 0
                   /\ t - c.lastTime > 0
                   /\ name \in DOMAIN c.lastStats
        last == c.lastStats[name]
        grew == /\ hasLast
                /\ counter.BytesRecv >= last.BytesRecv
                /\ counter.BytesSent >= last.BytesSent
    IN  [RxBytes |-> counter.BytesRecv,
         TxBytes |-> counter.BytesSent,
         RxRate |-> IF grew THEN Rate(counter.BytesRecv - last.BytesRecv, t - c.lastTime)
                    ELSE ZeroRate,
         TxRate |-> IF grew THEN Rate(counter.BytesSent - last.BytesSent, t - c.lastTime)
                    ELSE ZeroRate]

\* The loop body of Collect: the InterfaceTraffic of one counter
InterfaceTraffic(c, t, name, counter) ==
    LET hasLast == /\ c.lastTime # 0
                   /\ t - c.lastTime > 0
                   /\ name \in DOMAIN c.lastStats
        last == c.lastStats[name]
    IN  [RxBytes |-> counter.BytesRecv,
         TxBytes |-> counter.BytesSent,
         RxRate |-> IF hasLast /\ counter.BytesRecv >= last.BytesRecv
                    THEN Rate(counter.BytesRecv - last.BytesRecv, t - c.lastTime)
                    ELSE ZeroRate,
         TxRate |-> IF hasLast /\ counter.BytesSent >= last.BytesSent
                    THEN Rate(counter.BytesSent - last.BytesSent, t - c.lastTime)
                    ELSE ZeroRate]

\* Collect that stamps lastTime before it reads the counters
TrafficCollectorCollectStamps(c, t, counters, ok) ==
    IF ~ok
    THEN [c |-> [c EXCEPT !.lastTime = t],
          stats |-> [Interfaces |-> <<>>, Timestamp |-> t, err |-> "err"]]
    ELSE [c |-> [lastTime |-> t,
                 lastStats |-> [n \in DOMAIN c.lastStats \cup DOMAIN counters |->
                                  IF n \in DOMAIN counters THEN counters[n]
                                  ELSE c.lastStats[n]]],
          stats |-> [Interfaces |-> [n \in DOMAIN counters |->
                                       InterfaceTraffic(c, t, n, counters[n])],
                     Timestamp |-> t,
                     err |-> NoError]]

\* Collect at time t: counters is what net.IOCounters returned, ok whether
\* it returned without an error. A failed read leaves the collector as it was.
TrafficCollectorCollect(c, t, counters, ok) ==
    IF ~ok
    THEN [c |-> c, stats |-> [Interfaces |-> <<>>, Timestamp |-> t, err |-> "err"]]
    ELSE [c |-> [lastTime |-> t,
                 lastStats |-> [n \in DOMAIN c.lastStats \cup DOMAIN counters |->
                                  IF n \in DOMAIN counters THEN counters[n]
                                  ELSE c.lastStats[n]]],
          stats |-> [Interfaces |-> [n \in DOMAIN counters |->
                                       InterfaceTraffic(c, t, n, counters[n])],
                     Timestamp |-> t,
                     err |-> NoError]]

\* The record of readings after one more Collect: the latest successful
\* reading moves into prior, interface by interface, with its time.
Sampled(t, counters, ok) ==
    [prior |-> IF samples.ok
               THEN [n \in DOMAIN samples.prior \cup DOMAIN samples.counters |->
                       IF n \in DOMAIN samples.counters
                       THEN [time |-> samples.time,
                             BytesRecv |-> samples.counters[n].BytesRecv,
                             BytesSent |-> samples.counters[n].BytesSent]
                       ELSE samples.prior[n]]
               ELSE samples.prior,
     last |-> IF samples.ok THEN samples.time ELSE samples.last,
     time |-> t,
     counters |-> counters,
     ok |-> ok]

\* One Collect call d seconds after the previous one
Collect(d, counters, ok) ==
    LET r == TrafficCollectorCollect(trafficCollector, now + d, counters, ok)
    IN  /\ now + d <= MaxTime
        /\ now' = now + d
        /\ trafficCollector' = r.c
        /\ stats' = r.stats
        /\ samples' = Sampled(now + d, counters, ok)
        /\ UNCHANGED <<loopVars, kernelVars, natVars, dnsLookup, probeVars>>

CollectOk == \E d \in Elapsed, counters \in Readings : Collect(d, counters, TRUE)

CollectFails == \E d \in Elapsed : Collect(d, <<>>, FALSE)

TrafficNext == CollectOk \/ CollectFails

TrafficSpec == Init /\ [][TrafficNext]_vars

-----------------------------------------------------------------------------
(* KernelCollector.Collect and parseNetSnmp, internal/collector/kernel_stats.go *)

\* /proc/net/snmp: a header line and a values line per protocol, each line
\* the sequence of its fields.
TcpHeader == <<"Tcp:", "RetransSegs", "OutSegs">>
UdpHeader == <<"Udp:", "RcvbufErrors">>
UdpValues == <<"Udp:", "3">>
TcpValues(r, o) == <<"Tcp:", r, o>>

RetransTokens == {"0", "5", "15", "2000", "x"}
OutSegsTokens == {"0", "1000", "2000", "x"}

File(lines) == [readable |-> TRUE, lines |-> lines]

\* Files with both sections and every line in place
FullFiles ==
    {File(<<TcpHeader, TcpValues(r, o), UdpHeader, UdpValues>>) :
        r \in RetransTokens, o \in OutSegsTokens}

\* Files that lack a line, a section or a column, and the file that cannot
\* be opened
BrokenFiles ==
    {File(<<>>),
     File(<<TcpHeader>>),
     File(<<UdpHeader, UdpValues>>),
     File(<<TcpHeader, UdpHeader, UdpValues>>),
     File(<<TcpHeader, <<"Tcp:", "5">>, UdpHeader, UdpValues>>),
     File(<<<<"Tcp:">>, TcpHeader, TcpValues("5", "1000")>>),
     NoFile}

SnmpFiles == FullFiles \cup BrokenFiles

\* strconv.ParseFloat(tok, 64) on the tokens of the files above
ParseFloat(tok) ==
    CASE tok = "0" -> [ok |-> TRUE, val |-> 0]
      [] tok = "3" -> [ok |-> TRUE, val |-> 3]
      [] tok = "5" -> [ok |-> TRUE, val |-> 5]
      [] tok = "15" -> [ok |-> TRUE, val |-> 15]
      [] tok = "1000" -> [ok |-> TRUE, val |-> 1000]
      [] tok = "2000" -> [ok |-> TRUE, val |-> 2000]
      [] OTHER -> [ok |-> FALSE, val |-> 0]

\* strings.TrimSuffix(tok, ":")
TrimSuffix(tok) ==
    CASE tok = "Tcp:" -> "Tcp"
      [] tok = "Udp:" -> "Udp"
      [] OTHER -> tok

\* The scanner loop of parseNetSnmp over the remaining lines
RECURSIVE ParseLines(_, _)
ParseLines(lines, result) ==
    IF lines = <<>> THEN result
    ELSE LET parts == Head(lines)
         IN  IF Len(parts) < 2 THEN ParseLines(Tail(lines), result)
             ELSE IF Len(lines) < 2 THEN result
             ELSE LET valParts == lines[2]
                      proto == TrimSuffix(parts[1])
                      old == IF proto \in DOMAIN result THEN result[proto] ELSE <<>>
                      top == IF Len(parts) < Len(valParts) THEN Len(parts) ELSE Len(valParts)
                      idx == {i \in 2..top : ParseFloat(valParts[i]).ok}
                      Last(k) == CHOOSE i \in idx :
                                    parts[i] = k /\ \A j \in idx : parts[j] = k => j <= i
                      new == [k \in DOMAIN old \cup {parts[i] : i \in idx} |->
                                IF \E i \in idx : parts[i] = k
                                THEN ParseFloat(valParts[Last(k)]).val
                                ELSE old[k]]
                  IN  ParseLines(SubSeq(lines, 3, Len(lines)),
                                 [p \in DOMAIN result \cup {proto} |->
                                    IF p = proto THEN new ELSE result[p]])

\* The lines the scanner loop of parseNetSnmp pairs: the line it takes as
\* the header and the line it reads next as that header's values
RECURSIVE PairedLines(_)
PairedLines(lines) ==
    IF lines = <<>> THEN {}
    ELSE IF Len(Head(lines)) < 2 THEN PairedLines(Tail(lines))
    ELSE IF Len(lines) < 2 THEN {[header |-> lines[1], values |-> <<>>]}
    ELSE {[header |-> lines[1], values |-> lines[2]]}
         \cup PairedLines(SubSeq(lines, 3, Len(lines)))

\* parseNetSnmp: the only error is the one of os.Open
parseNetSnmp(file) ==
    IF ~file.readable
    THEN [result |-> <<>>, err |-> "err"]
    ELSE [result |-> ParseLines(file.lines, <<>>), err |-> NoError]

\* snmp[proto][name], 0 when either key is missing
SnmpValue(snmp, proto, name) ==
    IF proto \in DOMAIN snmp /\ name \in DOMAIN snmp[proto] THEN snmp[proto][name] ELSE 0

\* TCPRetransRate reporting 0 on the first run
KernelRateUnseeded(c, tcpRetrans, tcpOutSegs) ==
    IF c.lastOutSegs > 0
    THEN IF tcpOutSegs - c.lastOutSegs > 0
         THEN Rate(100 * (tcpRetrans - c.lastRetrans), tcpOutSegs - c.lastOutSegs)
         ELSE ZeroRate
    ELSE ZeroRate

\* TCPRetransRate, a percentage kept as the quotient the code computes
KernelRate(c, tcpRetrans, tcpOutSegs) ==
    IF c.lastOutSegs > 0
    THEN IF tcpOutSegs - c.lastOutSegs > 0
         THEN Rate(100 * (tcpRetrans - c.lastRetrans), tcpOutSegs - c.lastOutSegs)
         ELSE ZeroRate
    ELSE IF tcpOutSegs > 0 THEN Rate(100 * tcpRetrans, tcpOutSegs) ELSE ZeroRate

\* Collect on the given file contents; diag is whether the netlink socket
\* dump succeeded (it then counts one established connection).
KernelCollectorCollect(c, file, diag) ==
    LET p == parseNetSnmp(file)
        tcpRetrans == SnmpValue(p.result, "Tcp", "RetransSegs")
        tcpOutSegs == SnmpValue(p.result, "Tcp", "OutSegs")
    IN  IF p.err # NoError
        THEN [c |-> c, stats |-> NoKernelStats, err |-> p.err]
        ELSE [c |-> [lastRetrans |-> tcpRetrans, lastOutSegs |-> tcpOutSegs],
              stats |-> [TCPRetransRate |-> KernelRate(c, tcpRetrans, tcpOutSegs),
                         TCPEstablished |-> IF diag THEN 1 ELSE 0,
                         UDPRcvbufErrors |-> SnmpValue(p.result, "Udp", "RcvbufErrors"),
                         Error |-> NoError],
              err |-> NoError]

\* The KernelMsg fetchKernel returns for what Collect returned
KernelMsgOf(r) == IF r.err # NoError THEN [r.stats EXCEPT !.Error = r.err] ELSE r.stats

\* The record of contents after one more Collect
KernelSampled(file) ==
    [called |-> TRUE,
     count |-> IF kernelSamples.ok /\ kernelSamples.count < 2
               THEN kernelSamples.count + 1 ELSE kernelSamples.count,
     prior |-> IF kernelSamples.ok THEN kernelSamples.file ELSE kernelSamples.prior,
     file |-> file,
     ok |-> file.readable]

\* One fetchKernel
CollectKernel(file, diag) ==
    LET r == KernelCollectorCollect(kernelCollector, file, diag)
    IN  /\ kernelCollector' = r.c
        /\ kernelStats' = KernelMsgOf(r)
        /\ kernelSamples' = KernelSampled(file)
        /\ UNCHANGED <<loopVars, trafficVars, natVars, dnsLookup, probeVars>>

KernelNext == \E file \in SnmpFiles, diag \in BOOLEAN : CollectKernel(file, diag)

KernelSpec == Init /\ [][KernelNext]_vars

-----------------------------------------------------------------------------
(* NatCollector.probe, internal/collector/nat.go *)

\* Addresses: the local address of the UDP socket, and what the STUN
\* response carries ("" for an attribute that does not decode)
LocalIPs == {"10.0.0.2", "1.2.3.4"}
MappedIPs == {"", "1.2.3.4", "5.6.7.8"}

\* What happens after client.Do accepted the request: the callback runs with
\* a response, the callback runs with an error event, nothing happens for
\* two seconds, or the response arrives as the two seconds elapse.
StunEvents == {"response", "error", "timeout", "late"}

\* The network during one probe
Probes ==
    [probed : {TRUE}, dial : BOOLEAN, client : BOOLEAN, localIP : LocalIPs,
     send : BOOLEAN, event : StunEvents, xor : MappedIPs, mapped : MappedIPs,
     other : BOOLEAN, raced : BOOLEAN]

\* The callback preferring Mapped-Address
PublicIPOfMappedFirst(xor, mapped) ==
    IF mapped # "" THEN mapped
    ELSE IF xor # "" THEN xor
    ELSE ""

\* The callback of client.Do on a response: XOR-Mapped-Address, else
\* Mapped-Address, else nothing
PublicIPOf(xor, mapped) ==
    IF xor # "" THEN xor
    ELSE IF mapped # "" THEN mapped
    ELSE ""

\* NatCollector.probe under the network e.  On the two-second timeout the
\* callback may still run while probe returns: the PublicIP of the returned
\* copy is then either value (e.raced).
probe(e) ==
    LET info == [NoNatInfo EXCEPT !.NatType = NatUnknown]
        local == [info EXCEPT !.LocalIP = e.localIP]
        public == PublicIPOf(e.xor, e.mapped)
        done == [local EXCEPT !.PublicIP = IF e.event = "response" THEN public ELSE ""]
    IN  IF ~e.dial THEN [info EXCEPT !.Error = "dialing stun host"]
        ELSE IF ~e.client THEN [local EXCEPT !.Error = "creating stun client"]
        ELSE IF ~e.send
        THEN [local EXCEPT !.NatType = NatUdpBlocked, !.Error = "stun request failed"]
        ELSE IF e.event \in {"timeout", "late"}
        THEN [local EXCEPT !.Error = "stun request timed out",
                           !.PublicIP = IF e.event = "late" /\ e.raced THEN public ELSE ""]
        ELSE IF done.PublicIP = ""
        THEN [done EXCEPT !.NatType = NatUnknown, !.Error = "failed to get public ip"]
        ELSE IF done.PublicIP = done.LocalIP
        THEN [done EXCEPT !.NatType = NatOpenInternet]
        ELSE [done EXCEPT !.NatType = NatBehindNat]

\* The probe of one target; Collect probes each target once and the loop
\* calls Collect once.
Probe(e) ==
    /\ ~natProbe.probed
    /\ natProbe' = e
    /\ natInfo' = probe(e)
    /\ UNCHANGED <<loopVars, trafficVars, kernelVars, dnsLookup, probeVars>>

NatNext == \E e \in Probes : Probe(e)

NatSpec == Init /\ [][NatNext]_vars

-----------------------------------------------------------------------------
(* fetchDNS and DNSCollector.Lookup, internal/app/model.go and the          *)
(* DNSCollector of internal/collector                                       *)

\* The domains typed: every string of up to MaxDomainLen characters
Domains == UNION {[1..n -> HexDigits \cup {":"}] : n \in 0..MaxDomainLen}

\* The eight groups of an IPv6 literal, "::" filled with empty groups
Groups(s) ==
    LET g == Split(s, ":")
        empty == {i \in 1..Len(g) : g[i] = <<>>}
        lo == CHOOSE i \in empty : \A j \in empty : i <= j
        hi == CHOOSE i \in empty : \A j \in empty : j <= i
        left == SubSeq(g, 1, lo - 1)
        right == SubSeq(g, hi + 1, Len(g))
    IN  IF empty = {} THEN g
        ELSE left \o [i \in 1..(8 - Len(left) - Len(right)) |-> <<>>] \o right

\* The k-th of the 32 hexadecimal digits of an IPv6 literal
Nibble(s, k) ==
    LET group == Groups(s)[((k - 1) \div 4) + 1]
        at == ((k - 1) % 4) + 1 - (4 - Len(group))
    IN  IF at >= 1 THEN group[at] ELSE "0"

\* dns.ReverseAddr of an IPv6 literal: the digits in reverse order, each
\* followed by a dot, then "ip6.arpa."
RECURSIVE ReverseDigits(_, _)
ReverseDigits(s, k) ==
    IF k = 0 THEN <<"i", "p", "6", ".", "a", "r", "p", "a", ".">>
    ELSE <<Nibble(s, k), ".">> \o ReverseDigits(s, k - 1)

ReverseAddr(s) ==
    IF ParseIP(s) THEN [name |-> ReverseDigits(s, 32), err |-> NoError]
    ELSE [name |-> <<>>, err |-> "unrecognized address"]

\* The body of fetchDNS before Lookup: "Auto" becomes PTR or A
AutoRecordType(recordType, domain) ==
    IF recordType = "Auto"
    THEN IF ParseIP(domain) THEN "PTR" ELSE "A"
    ELSE recordType

\* Lookup reversing the name only for the PTR record type
QuestionAsSelected(domain, recordType) ==
    LET rev == ReverseAddr(domain)
        fqdn(d) == IF d # <<>> /\ d[Len(d)] = "." THEN d ELSE d \o <<".">>
    IN  IF recordType = "PTR"
        THEN IF rev.err # NoError
             THEN [query |-> NoQuery, err |-> "invalid IP for reverse lookup"]
             ELSE [query |-> [name |-> fqdn(rev.name), qtype |-> "PTR"], err |-> NoError]
        ELSE [query |-> [name |-> fqdn(domain), qtype |-> recordType], err |-> NoError]

\* The head of Lookup: the question it builds, or the error of ReverseAddr
Question(domain, recordType) ==
    LET rev == ReverseAddr(domain)
        fqdn(d) == IF d # <<>> /\ d[Len(d)] = "." THEN d ELSE d \o <<".">>
    IN  IF recordType = "PTR" \/ ParseIP(domain)
        THEN IF rev.err # NoError
             THEN [query |-> NoQuery, err |-> "invalid IP for reverse lookup"]
             ELSE [query |-> [name |-> fqdn(rev.name), qtype |-> "PTR"], err |-> NoError]
        ELSE [query |-> [name |-> fqdn(domain), qtype |-> recordType], err |-> NoError]

\* getCertInfo: nil when the connection state holds no peer certificate
getCertInfo(peerCertificates) == peerCertificates > 0

\* DNSLookupResult{Error: err, ..., Protocol: proto}
Failed(err, proto) == [NoResult EXCEPT !.Error = err, !.Protocol = proto]

\* parseResponse
parseResponse(proto, cert) ==
    [NoResult EXCEPT !.Protocol = proto, !.CertInfo = cert, !.answered = TRUE]

Finish(res) == dnsLookup' = [dnsLookup EXCEPT !.pc = "done", !.result = res]

\* fetchDNS starts: the arguments Enter closed over, and a server that
\* answers or accepts and stays silent. Lookup builds the question and
\* enters lookupDoH, lookupDoT or lookupStandard.
StartLookup(domain, recordType, proto, silent) ==
    LET q == Question(domain, AutoRecordType(recordType, domain))
        l == [dnsLookup EXCEPT !.domain = domain, !.recordType = recordType,
                               !.proto = proto, !.silent = silent, !.query = q.query]
    IN  /\ dnsLookup.pc = "idle"
        /\ dnsLookup' =
             IF q.err # NoError THEN [l EXCEPT !.pc = "done", !.result = Failed(q.err, "")]
             ELSE CASE proto = "DoH" -> [l EXCEPT !.pc = "http", !.net = "https"]
                    [] proto = "DoT" -> [l EXCEPT !.pc = "dial", !.net = "tcp-tls"]
                    [] OTHER -> [l EXCEPT !.pc = "exchange", !.net = "udp"]
        /\ UNCHANGED <<loopVars, trafficVars, kernelVars, natVars, probeVars>>

\* lookupStandard: client.ExchangeContext returns an answer or an error
ExchangeDone(ok) ==
    /\ dnsLookup.pc = "exchange"
    /\ ~dnsLookup.silent
    /\ Finish(IF ok THEN parseResponse("UDP", FALSE) ELSE Failed("err", "UDP"))
    /\ UNCHANGED <<loopVars, trafficVars, kernelVars, natVars, probeVars>>

\* The 10-second context of fetchDNS expires: ExchangeContext and the
\* request of lookupDoH carry it
ContextDeadline ==
    /\ dnsLookup.pc \in {"exchange", "http"}
    /\ Finish(Failed("context deadline exceeded",
                     IF dnsLookup.pc = "http" THEN "DoH" ELSE "UDP"))
    /\ UNCHANGED <<loopVars, trafficVars, kernelVars, natVars, probeVars>>

\* lookupDoT: tls.DialWithDialer returns, at the latest after the dialer's
\* 5 seconds
DialDone(ok) ==
    /\ dnsLookup.pc = "dial"
    /\ IF ok
       THEN dnsLookup' = [dnsLookup EXCEPT !.pc = "write"]
       ELSE Finish(Failed("err", "DoT"))
    /\ UNCHANGED <<loopVars, trafficVars, kernelVars, natVars, probeVars>>

\* lookupDoT: dnsConn.WriteMsg returns
WriteDone(ok) ==
    /\ dnsLookup.pc = "write"
    /\ IF ok
       THEN dnsLookup' = [dnsLookup EXCEPT !.pc = "read"]
       ELSE Finish(Failed("err", "DoT"))
    /\ UNCHANGED <<loopVars, trafficVars, kernelVars, natVars, probeVars>>

\* lookupDoT: dnsConn.ReadMsg returns once the server answers or closes;
\* the connection carries no deadline. The handshake verified the server's
\* chain, so the connection state holds a peer certificate.
ReadDone(ok) ==
    /\ dnsLookup.pc = "read"
    /\ ~dnsLookup.silent
    /\ Finish(IF ok THEN parseResponse("DoT", getCertInfo(1)) ELSE Failed("err", "DoT"))
    /\ UNCHANGED <<loopVars, trafficVars, kernelVars, natVars, probeVars>>

\* How the request of lookupDoH ends when the server answers: a 200 with a
\* DNS message over TLS, the same from a plain http URL the server
\* redirected to (resp.TLS is nil), another status, a transport error, or
\* a body that does not unpack
HttpOutcomes == {"ok", "plain", "status", "err", "unpack"}

\* lookupDoH: client.Do and the body read return
HttpDone(o) ==
    /\ dnsLookup.pc = "http"
    /\ ~dnsLookup.silent
    /\ Finish(CASE o = "ok" -> parseResponse("DoH", getCertInfo(1))
                [] o = "plain" -> parseResponse("DoH", FALSE)
                [] o = "status" -> Failed("DoH server returned status", "DoH")
                [] OTHER -> Failed("err", "DoH"))
    /\ UNCHANGED <<loopVars, trafficVars, kernelVars, natVars, probeVars>>

\* lookupDoH: the http.Client's 5-second Timeout expires
HttpTimeout ==
    /\ dnsLookup.pc = "http"
    /\ Finish(Failed("Client.Timeout exceeded", "DoH"))
    /\ UNCHANGED <<loopVars, trafficVars, kernelVars, natVars, probeVars>>

LookupStep ==
    \/ \E ok \in BOOLEAN : ExchangeDone(ok)
    \/ ContextDeadline
    \/ \E ok \in BOOLEAN : DialDone(ok)
    \/ \E ok \in BOOLEAN : WriteDone(ok)
    \/ \E ok \in BOOLEAN : ReadDone(ok)
    \/ \E o \in HttpOutcomes : HttpDone(o)
    \/ HttpTimeout

DNSNext ==
    \/ \E domain \in Domains, recordType \in {dnsRecordTypes[i] : i \in 1..Len(dnsRecordTypes)},
          proto \in {dnsProtocols[i] : i \in 1..Len(dnsProtocols)}, silent \in BOOLEAN :
            StartLookup(domain, recordType, proto, silent)
    \/ LookupStep

DNSSpec == Init /\ [][DNSNext]_vars

\* The lookup with the scheduling the runtime guarantees: a call that can
\* return does return, and a timer that is armed fires.
DNSLiveSpec == DNSSpec /\ WF_vars(LookupStep)

-----------------------------------------------------------------------------
(* TunnelCollector, internal/collector/tunnel.go                            *)

\* The tunnels of a configuration: every transport and application tag,
\* one unsupported tag each, and a proxy address for the proxied transports
TunnelConfigs ==
    {cfg \in [Transport : {"tcp", "udp", "tls", "dtls", "socks5", "http", "kcp"},
              App : {"tcp", "udp", "http", "ws", "socks5", "tls", "kcp"},
              Proxy : {<<>>, <<"p">>}] :
        cfg.Proxy # <<>> => cfg.Transport \in {"socks5", "http"}}

TunnelLists == UNION {[1..n -> TunnelConfigs] : n \in 0..MaxTunnels}

\* What the peer may send during the application check
AppReplies(app) ==
    CASE app \in {"http", "ws"} ->
            {[NoReply EXCEPT !.err = TRUE]} \cup
            {[NoReply EXCEPT !.status = st] : st \in {101, 200, 399, 400}}
      [] app = "socks5" ->
            {[NoReply EXCEPT !.err = TRUE]} \cup
            {[NoReply EXCEPT !.ver = v, !.method = md] : v \in {4, 5}, md \in {0, 255}}
      [] OTHER -> {[NoReply EXCEPT !.err = e] : e \in BOOLEAN}

\* dialTransport without the proxy check of the proxied transports
dialTransportAnyProxy(cfg) ==
    CASE cfg.Transport \in {"tcp", "udp", "tls", "http"} -> [pc |-> "dial", err |-> NoError]
      [] cfg.Transport = "dtls" -> [pc |-> "dtls", err |-> NoError]
      [] cfg.Transport = "socks5" -> [pc |-> "socks", err |-> NoError]
      [] OTHER -> [pc |-> "dial", err |-> NoError]

\* The head of dialTransport: the call it blocks in first, or the error it
\* returns before any call
dialTransport(cfg) ==
    CASE cfg.Transport \in {"tcp", "udp", "tls"} -> [pc |-> "dial", err |-> NoError]
      [] cfg.Transport = "dtls" -> [pc |-> "dtls", err |-> NoError]
      [] cfg.Transport = "socks5" ->
            IF cfg.Proxy = <<>> THEN [pc |-> "", err |-> "proxy address required for socks5"]
            ELSE [pc |-> "socks", err |-> NoError]
      [] cfg.Transport = "http" ->
            IF cfg.Proxy = <<>> THEN [pc |-> "", err |-> "proxy address required for http proxy"]
            ELSE [pc |-> "dial", err |-> NoError]
      [] OTHER -> [pc |-> "", err |-> "unsupported transport protocol"]

\* checkApplication accepting every HTTP status below 500
checkApplicationLax(app, reply) ==
    CASE app \in {"tcp", "udp"} -> NoError
      [] app = "http" ->
            IF reply.err THEN "err"
            ELSE IF reply.status >= 200 /\ reply.status < 500 THEN NoError
            ELSE "http status"
      [] app = "ws" ->
            IF reply.err THEN "err"
            ELSE IF reply.status # 101 THEN "websocket upgrade failed"
            ELSE NoError
      [] app = "socks5" ->
            IF reply.err THEN "err"
            ELSE IF reply.ver # 5 THEN "invalid socks version"
            ELSE IF reply.method = 255 THEN "socks5 no acceptable methods"
            ELSE NoError
      [] app = "tls" -> IF reply.err THEN "err" ELSE NoError
      [] OTHER -> "unsupported application protocol"

\* checkApplication: the error it returns for what it read
checkApplication(app, reply) ==
    CASE app \in {"tcp", "udp"} -> NoError
      [] app = "http" ->
            IF reply.err THEN "err"
            ELSE IF reply.status >= 200 /\ reply.status < 400 THEN NoError
            ELSE "http status"
      [] app = "ws" ->
            IF reply.err THEN "err"
            ELSE IF reply.status # 101 THEN "websocket upgrade failed"
            ELSE NoError
      [] app = "socks5" ->
            IF reply.err THEN "err"
            ELSE IF reply.ver # 5 THEN "invalid socks version"
            ELSE IF reply.method = 255 THEN "socks5 no acceptable methods"
            ELSE NoError
      [] app = "tls" -> IF reply.err THEN "err" ELSE NoError
      [] OTHER -> "unsupported application protocol"

\* Collect appends the TunnelResult of the test that returned err and goes
\* on with the next tunnel, or returns
Tested(t, err) ==
    LET cfg == t.Config[t.i]
    IN  [t EXCEPT !.results = Append(@, [App |-> cfg.App, Transport |-> cfg.Transport,
                                         Status |-> IF err # NoError THEN "Error" ELSE "OK",
                                         Error |-> err]),
                  !.log = Append(@, t.cur),
                  !.pc = IF t.i = Len(t.Config) THEN "returned" ELSE "start"]

\* The http transport failing after the proxy connection was opened, the
\* connection left open
proxyFailedLeaks(t, err) == Tested(t, err)

\* The http transport failing after the proxy connection was opened:
\* proxyConn.Close() and the error
proxyFailed(t, err) == Tested([t EXCEPT !.open = @ - 1], err)

\* testTunnel returning from checkApplication: the deferred conn.Close()
Checked(t, err) == Tested([t EXCEPT !.open = @ - 1, !.cur.checked = TRUE], err)

\* A connection was opened
Opened(t) == [t EXCEPT !.open = @ + 1, !.cur.dialed = TRUE, !.cur.opened = TRUE]

\* dialTransport returned a connection: checkApplication sets the deadline
\* and either returns at once or writes its request and reads
Established(t) ==
    LET t1 == [t EXCEPT !.cur.established = TRUE]
        app == t.Config[t.i].App
    IN  IF app \in {"http", "ws", "socks5", "tls"}
        THEN [t1 EXCEPT !.pc = "app"]
        ELSE Checked(t1, checkApplication(app, NoReply))

OtherThanTunnel == <<loopVars, trafficVars, kernelVars, natVars, dnsLookup, ping, publicIP, natCollect, connectivity, dnsCheck, overlap>>

\* NewTunnelCollector(cfg).Collect() is called
TunnelCollect(cfg) ==
    /\ tunnel.pc = "idle"
    /\ tunnel' = [tunnel EXCEPT !.Config = cfg,
                                !.pc = IF cfg = <<>> THEN "returned" ELSE "start"]
    /\ UNCHANGED OtherThanTunnel

\* The loop of Collect calls testTunnel for the next tunnel, whose peer (or
\* proxy) answers or accepts the connection and stays silent
TestTunnel(silent) ==
    LET t == [tunnel EXCEPT !.i = @ + 1, !.silent = silent, !.cur = NoTest]
        d == dialTransport(t.Config[t.i])
    IN  /\ tunnel.pc = "start"
        /\ tunnel' = IF d.err # NoError THEN Tested(t, d.err) ELSE [t EXCEPT !.pc = d.pc]
        /\ UNCHANGED OtherThanTunnel

\* net.DialTimeout or tls.DialWithDialer returns, at the latest after the
\* 5-second timeout; for the http transport the CONNECT request follows
TunnelDialDone(ok) ==
    /\ tunnel.pc = "dial"
    /\ tunnel' =
         IF ~ok THEN Tested([tunnel EXCEPT !.cur.dialed = TRUE], "transport error")
         ELSE IF tunnel.Config[tunnel.i].Transport = "http"
         THEN [Opened(tunnel) EXCEPT !.pc = "connect"]
         ELSE Established(Opened(tunnel))
    /\ UNCHANGED OtherThanTunnel

\* net.ResolveUDPAddr fails, or dtls.Dial returns; the call is given no
\* timeout and ends by the library's own handshake bound
TunnelDtlsDone(o) ==
    /\ tunnel.pc = "dtls"
    /\ tunnel' =
         CASE o = "resolve" -> Tested(tunnel, "transport error")
           [] o = "fail" -> Tested([tunnel EXCEPT !.cur.dialed = TRUE], "transport error")
           [] OTHER -> Established(Opened(tunnel))
    /\ UNCHANGED OtherThanTunnel

\* dialer.Dial of the SOCKS5 dialer returns: it connects with proxy.Direct
\* and negotiates without a deadline, so it returns when the proxy answers
\* or closes
TunnelSocksDone(ok) ==
    /\ tunnel.pc = "socks"
    /\ ~tunnel.silent
    /\ tunnel' =
         IF ok THEN Established(Opened(tunnel))
         ELSE Tested([tunnel EXCEPT !.cur.dialed = TRUE], "transport error")
    /\ UNCHANGED OtherThanTunnel

\* How the CONNECT exchange on the proxy connection ends: http.NewRequest
\* fails, req.Write fails, http.ReadResponse fails, the proxy answers
\* another status than 200, or it answers 200
ConnectOutcomes == {"request", "write", "read", "status", "ok"}

\* The CONNECT exchange ends; the proxy connection carries no deadline, so
\* it ends when the proxy answers or closes
TunnelConnectDone(o) ==
    /\ tunnel.pc = "connect"
    /\ ~tunnel.silent
    /\ tunnel' =
         IF o = "ok" THEN Established(tunnel)
         ELSE proxyFailed(tunnel, "transport error")
    /\ UNCHANGED OtherThanTunnel

\* checkApplication reads the peer's reply and returns
TunnelAppDone(reply) ==
    /\ tunnel.pc = "app"
    /\ ~tunnel.silent
    /\ tunnel' = Checked([tunnel EXCEPT !.cur.reply = reply],
                         checkApplication(tunnel.Config[tunnel.i].App, reply))
    /\ UNCHANGED OtherThanTunnel

\* The 5-second deadline checkApplication set on the connection expires
TunnelAppDeadline ==
    /\ tunnel.pc = "app"
    /\ tunnel' = Checked([tunnel EXCEPT !.cur.reply.err = TRUE], "i/o timeout")
    /\ UNCHANGED OtherThanTunnel

TunnelStep ==
    \/ \E silent \in BOOLEAN : TestTunnel(silent)
    \/ \E ok \in BOOLEAN : TunnelDialDone(ok)
    \/ \E o \in {"resolve", "fail", "ok"} : TunnelDtlsDone(o)
    \/ \E ok \in BOOLEAN : TunnelSocksDone(ok)
    \/ \E o \in ConnectOutcomes : TunnelConnectDone(o)
    \/ \E reply \in (IF tunnel.pc = "app" THEN AppReplies(tunnel.Config[tunnel.i].App) ELSE {}) :
          TunnelAppDone(reply)
    \/ TunnelAppDeadline

TunnelNext ==
    \/ \E cfg \in TunnelLists : TunnelCollect(cfg)
    \/ TunnelStep

TunnelSpec == Init /\ [][TunnelNext]_vars

\* The tunnel tests with the scheduling the runtime guarantees: a call that
\* can return does return, and a deadline that is set expires.
TunnelLiveSpec == TunnelSpec /\ WF_vars(TunnelStep)

-----------------------------------------------------------------------------
(* pingTarget and tcpPing of the ConnectivityCollector                      *)

PingTargets == {"8.8.8.8", "baidu.com"}

\* What the network does during one pingTarget: whether ping.NewPinger
\* resolves the target, how pinger.Run ends and the statistics it gathered,
\* and for each of the ports 80 and 443 whether the connect succeeds and
\* how long it takes
PingEnvs ==
    [newPinger : BOOLEAN, run : {"ok", "permission", "err"}, loss : {0, 100}, rtt : {3},
     tcp80 : BOOLEAN, d80 : {1, 2}, tcp443 : BOOLEAN, d443 : {1, 2}]

\* tcpPing reporting the time spent also when both connects failed
tcpPingTimed(target, e) ==
    IF e.tcp80
    THEN [NoPingResult EXCEPT !.Target = target, !.MinRtt = e.d80, !.AvgRtt = e.d80,
                              !.MaxRtt = e.d80]
    ELSE [NoPingResult EXCEPT !.Target = target, !.MinRtt = e.d80 + e.d443,
                              !.AvgRtt = e.d80 + e.d443, !.MaxRtt = e.d80 + e.d443,
                              !.Error = IF e.tcp443 THEN NoError ELSE "err",
                              !.PacketLoss = IF e.tcp443 THEN 0 ELSE 100]

\* tcpPing
tcpPing(target, e) ==
    IF e.tcp80
    THEN [NoPingResult EXCEPT !.Target = target, !.MinRtt = e.d80, !.AvgRtt = e.d80,
                              !.MaxRtt = e.d80]
    ELSE IF e.tcp443
    THEN [NoPingResult EXCEPT !.Target = target, !.MinRtt = e.d80 + e.d443,
                              !.AvgRtt = e.d80 + e.d443, !.MaxRtt = e.d80 + e.d443]
    ELSE [NoPingResult EXCEPT !.Target = target, !.Error = "err", !.PacketLoss = 100]

\* pingTarget
pingTarget(target, e) ==
    IF ~e.newPinger THEN [NoPingResult EXCEPT !.Target = target, !.Error = "err"]
    ELSE IF e.run # "ok" THEN tcpPing(target, e)
    ELSE [NoPingResult EXCEPT !.Target = target, !.PacketLoss = e.loss,
                              !.MinRtt = IF e.loss = 100 THEN 0 ELSE e.rtt,
                              !.AvgRtt = IF e.loss = 100 THEN 0 ELSE e.rtt,
                              !.MaxRtt = IF e.loss = 100 THEN 0 ELSE e.rtt]

OtherThanPing == <<loopVars, trafficVars, kernelVars, natVars, dnsLookup, tunnel, publicIP, natCollect, connectivity, dnsCheck, overlap>>

\* ConnectivityCollector.Ping(target)
PingOnce(target, e) ==
    /\ ~ping.called
    /\ ping' = [called |-> TRUE, env |-> e, res |-> pingTarget(target, e)]
    /\ UNCHANGED OtherThanPing

\* ping.NewPinger fails only for a name that does not resolve
PingNext ==
    \E target \in PingTargets, e \in PingEnvs :
        /\ e.newPinger \/ target = "baidu.com"
        /\ PingOnce(target, e)

PingSpec == Init /\ [][PingNext]_vars

-----------------------------------------------------------------------------
(* PublicIPCollector, internal/collector/public_ip.go                       *)

\* The provider list of NewPublicIPCollector, cut to its first MaxProviders
providers ==
    SubSeq(<<"https://api.ipify.org?format=text", "https://ifconfig.me/ip",
             "https://icanhazip.com", "https://checkip.amazonaws.com", "https://ipinfo.io/ip",
             "https://ipecho.net/plain", "https://ident.me", "https://whatismyip.akamai.com",
             "https://myexternalip.com/raw">>, 1, MaxProviders)

\* The seconds of the context of Collect and of the http.Client of fetchIP
CollectTimeout == 5
ClientTimeout == 3

\* A response body: n characters and a newline
Body(n) == [i \in 1..n |-> "1"] \o <<"\n">>

\* What a provider does with the request: it answers with a status and a
\* body after d seconds, refuses the connection, or never answers
ProviderEnvs ==
    [kind : {"answer"}, status : {200}, body : {Body(n) : n \in {0, 1, 45, 46}}, d : {0, 2}]
    \cup [kind : {"answer"}, status : {500}, body : {Body(0)}, d : {0, 2}]
    \cup [kind : {"err", "hang"}, status : {0}, body : {<<>>}, d : {0}]

\* strings.TrimSpace
RECURSIVE TrimSpace(_)
TrimSpace(b) ==
    IF b # <<>> /\ Head(b) \in {" ", "\n"} THEN TrimSpace(Tail(b))
    ELSE IF b # <<>> /\ b[Len(b)] \in {" ", "\n"} THEN TrimSpace(SubSeq(b, 1, Len(b) - 1))
    ELSE b

\* The time an attempt may take: the client's timeout, or what is left of
\* the context that all attempts of one Collect share
Allowed(elapsed) ==
    IF CollectTimeout - elapsed < ClientTimeout THEN CollectTimeout - elapsed ELSE ClientTimeout

\* fetchIP against a provider that does e, with the time allowed: the ip,
\* the error, and the seconds it took
fetchIP(e, allowed) ==
    IF e.kind = "hang" \/ (e.kind = "answer" /\ e.d >= allowed)
    THEN [ip |-> <<>>, err |-> "context deadline exceeded", took |-> allowed]
    ELSE IF e.kind = "err" THEN [ip |-> <<>>, err |-> "err", took |-> 0]
    ELSE IF e.status # 200 THEN [ip |-> <<>>, err |-> "status code", took |-> e.d]
    ELSE IF Len(TrimSpace(e.body)) = 0 \/ Len(TrimSpace(e.body)) > 45
    THEN [ip |-> <<>>, err |-> "invalid response length", took |-> e.d]
    ELSE [ip |-> TrimSpace(e.body), err |-> NoError, took |-> e.d]

OtherThanPublicIP == <<loopVars, trafficVars, kernelVars, natVars, dnsLookup, tunnel, ping, natCollect, connectivity, dnsCheck, overlap>>

\* PublicIPCollector.Collect is called and creates its context
PublicIPCollect ==
    /\ publicIP.pc = "idle"
    /\ publicIP' = [publicIP EXCEPT !.pc = "loop"]
    /\ UNCHANGED OtherThanPublicIP

\* One iteration of the loop of Collect: fetchIP for the next provider,
\* which does e; Collect returns on the first ip, or after the last provider
FetchIP(e) ==
    LET i == publicIP.i + 1
        allowed == Allowed(publicIP.elapsed)
        r == fetchIP(e, allowed)
        p1 == [publicIP EXCEPT !.i = i, !.elapsed = @ + r.took,
                               !.log = Append(@, [env |-> e, allowed |-> allowed])]
    IN  /\ publicIP.pc = "loop"
        /\ publicIP' =
             IF r.err = NoError /\ r.ip # <<>>
             THEN [p1 EXCEPT !.pc = "returned", !.info.IP = r.ip, !.info.Provider = providers[i]]
             ELSE IF i = Len(providers)
             THEN [p1 EXCEPT !.pc = "returned",
                             !.info.Error = "failed to fetch public IP from all providers"]
             ELSE p1
        /\ UNCHANGED OtherThanPublicIP

PublicIPNext ==
    \/ PublicIPCollect
    \/ \E e \in ProviderEnvs : FetchIP(e)

PublicIPSpec == Init /\ [][PublicIPNext]_vars

-----------------------------------------------------------------------------
(* NatCollector.Collect, internal/collector/nat.go                          *)

\* The configured target lists: up to MaxStunTargets of the two default
\* servers
StunTargetLists ==
    UNION {[1..n -> {"stun3.l.google.com:19302", "stun.l.google.com:19302"}] :
              n \in 0..MaxStunTargets}

\* The networks a probe of Collect meets: a response through a NAT, no
\* answer, no route
ProbeSamples ==
    {e \in Probes :
        /\ e.client /\ e.send /\ ~e.other /\ ~e.raced
        /\ e.localIP = "10.0.0.2" /\ e.xor = "5.6.7.8" /\ e.mapped = ""
        /\ \/ e.dial /\ e.event \in {"response", "timeout"}
           \/ ~e.dial /\ e.event = "timeout"}

\* A channel that holds one NatInfo
CapacityOne(targets) == 1

\* make(chan NatInfo, len(c.Targets))
Capacity(targets) == Len(targets)

OtherThanNatCollect == <<loopVars, trafficVars, kernelVars, natVars, dnsLookup, tunnel, ping, publicIP, connectivity, dnsCheck, overlap>>

\* Collect is called: the channel is made and one goroutine per target is
\* started; without targets both loops are empty and Collect returns
NatCollectorCollect(targets) ==
    /\ natCollect.pc = "idle"
    /\ natCollect' = [natCollect EXCEPT !.Targets = targets,
                                        !.cap = Capacity(targets),
                                        !.workers = [i \in 1..Len(targets) |-> "probing"],
                                        !.pc = IF targets = <<>> THEN "returned" ELSE "receive"]
    /\ UNCHANGED OtherThanNatCollect

\* The goroutine of target i: c.probe(target) has returned and the send
\* ch <- info proceeds, which needs room in the channel
ProbeSent(i, e) ==
    /\ natCollect.pc # "idle"
    /\ i \in 1..Len(natCollect.workers)
    /\ natCollect.workers[i] = "probing"
    /\ Len(natCollect.ch) < natCollect.cap
    /\ natCollect' = [natCollect EXCEPT !.workers[i] = "sent",
                                        !.ch = Append(@, [Target |-> natCollect.Targets[i],
                                                          info |-> probe(e)])]
    /\ UNCHANGED OtherThanNatCollect

\* results = append(results, <-ch); Collect returns after len(c.Targets)
\* receives
Receive ==
    /\ natCollect.pc = "receive"
    /\ natCollect.ch # <<>>
    /\ natCollect' = [natCollect EXCEPT !.ch = Tail(@),
                                        !.results = Append(@, Head(natCollect.ch)),
                                        !.pc = IF Len(natCollect.results) + 1 = Len(natCollect.Targets)
                                               THEN "returned" ELSE "receive"]
    /\ UNCHANGED OtherThanNatCollect

NatCollectNext ==
    \/ \E targets \in StunTargetLists : NatCollectorCollect(targets)
    \/ \E i \in 1..MaxStunTargets, e \in ProbeSamples : ProbeSent(i, e)
    \/ Receive

NatCollectSpec == Init /\ [][NatCollectNext]_vars

-----------------------------------------------------------------------------
(* ConnectivityCollector.Collect                                            *)

\* The Targets field: the list of NewConnectivityCollector, shorter lists,
\* and a list naming a target twice
ConnTargetLists ==
    {<<>>, <<"8.8.8.8">>, <<"8.8.8.8", "baidu.com">>, <<"baidu.com", "baidu.com">>}

\* getDefaultGateway: "" with its error, or the gateway's address
Gateways == {"", "8.8.8.8", "192.168.1.1"}

\* The networks a worker's pingTarget meets: ICMP answers, or nothing does
PingSamples ==
    {e \in PingEnvs :
        /\ e.newPinger /\ e.loss = 0 /\ e.d80 = 1 /\ e.d443 = 1
        /\ \/ e.run = "ok" /\ e.tcp80 /\ e.tcp443
           \/ e.run = "err" /\ ~e.tcp80 /\ ~e.tcp443}

\* The list of this run: a copy of Targets, the gateway put in front when
\* it was found and is not in the list
TargetsToPing(targets, gw) ==
    IF gw # "" /\ \A i \in 1..Len(targets) : targets[i] # gw
    THEN <<gw>> \o targets
    ELSE targets

\* Collect returning without waiting for the workers
WaitSkipped(workers) == TRUE

\* wg.Wait(): every goroutine has called wg.Done()
Wait(workers) == \A i \in 1..Len(workers) : workers[i].pc = "done"

OtherThanConnectivity == <<loopVars, trafficVars, kernelVars, natVars, dnsLookup, tunnel, ping, publicIP, natCollect, dnsCheck, overlap>>

\* Collect is called: it builds the list of this run and starts one
\* goroutine per target and one for the DNS check (the last worker)
ConnectivityCollectorCollect(targets, gw) ==
    LET list == TargetsToPing(targets, gw)
    IN  /\ connectivity.pc = "idle"
        /\ connectivity' =
             [connectivity EXCEPT !.Targets = targets, !.configured = targets, !.gw = gw,
                                  !.targetsToPing = list,
                                  !.workers = [i \in 1..(Len(list) + 1) |->
                                                  [pc |-> "run", res |-> NoPingResult]],
                                  !.pc = "wait"]
        /\ UNCHANGED OtherThanConnectivity

\* Worker i: pingTarget(t) (or checkDNS) has returned and the worker asks
\* for the mutex
WorkerRan(i, e) ==
    LET n == Len(connectivity.targetsToPing)
    IN  /\ i \in 1..Len(connectivity.workers)
        /\ connectivity.workers[i].pc = "run"
        /\ connectivity' =
             [connectivity EXCEPT
                !.workers[i] = [pc |-> "lock",
                                res |-> IF i <= n
                                        THEN pingTarget(connectivity.targetsToPing[i], e)
                                        ELSE NoPingResult]]
        /\ UNCHANGED OtherThanConnectivity

\* mu.Lock() of worker i
WorkerLock(i) ==
    /\ i \in 1..Len(connectivity.workers)
    /\ connectivity.workers[i].pc = "lock"
    /\ connectivity.mu = 0
    /\ connectivity' = [connectivity EXCEPT !.workers[i].pc = "store", !.mu = i]
    /\ UNCHANGED OtherThanConnectivity

\* stats.Targets[t] = res (or stats.DNS = dnsRes), mu.Unlock() and the
\* deferred wg.Done() of worker i
WorkerStore(i) ==
    LET n == Len(connectivity.targetsToPing)
        t == connectivity.targetsToPing[i]
        old == connectivity.stats.Targets
    IN  /\ i \in 1..Len(connectivity.workers)
        /\ connectivity.workers[i].pc = "store"
        /\ connectivity' =
             [connectivity EXCEPT
                !.workers[i].pc = "done", !.mu = 0,
                !.stats = IF i <= n
                          THEN [@ EXCEPT !.Targets =
                                   [k \in DOMAIN old \cup {t} |->
                                       IF k = t THEN connectivity.workers[i].res ELSE old[k]]]
                          ELSE [@ EXCEPT !.DNS = TRUE]]
        /\ UNCHANGED OtherThanConnectivity

\* wg.Wait() returns and Collect returns stats
ConnectivityReturn ==
    /\ connectivity.pc = "wait"
    /\ Wait(connectivity.workers)
    /\ connectivity' = [connectivity EXCEPT !.pc = "returned"]
    /\ UNCHANGED OtherThanConnectivity

ConnectivityNext ==
    \/ \E targets \in ConnTargetLists, gw \in Gateways : ConnectivityCollectorCollect(targets, gw)
    \/ \E i \in 1..4, e \in PingSamples : WorkerRan(i, e)
    \/ \E i \in 1..4 : WorkerLock(i)
    \/ \E i \in 1..4 : WorkerStore(i)
    \/ ConnectivityReturn

ConnectivitySpec == Init /\ [][ConnectivityNext]_vars

\* The same program with the scheduling the runtime guarantees: the program
\* starts, timers fire, and every traffic and kernel invocation returns.
LiveSpec ==
    /\ Init /\ [][Next]_vars
    /\ WF_vars(ProgramStart)
    /\ WF_vars(Tick)
    /\ WF_vars(TrafficDone)
    /\ WF_vars(KernelDone)

\* Both collectors sampled in any order, each read succeeding or failing
ReadFailNext ==
    \/ CollectFails
    \/ \E d \in Elapsed, r \in {1000, 3048} :
          Collect(d, [n \in {"eth0"} |-> [BytesRecv |-> r, BytesSent |-> 1000]], TRUE)
    \/ \E diag \in BOOLEAN,
          file \in {NoFile,
                    File(<<TcpHeader, TcpValues("5", "1000"), UdpHeader, UdpValues>>),
                    File(<<TcpHeader, TcpValues("15", "2000"), UdpHeader, UdpValues>>),
                    File(<<UdpHeader, UdpValues>>)} :
          CollectKernel(file, diag)

ReadFailSpec == Init /\ [][ReadFailNext]_vars

\* The program where a probe may hang: timers fire and the connectivity
\* probe returns, and of the traffic and the kernel probe at least one always
\* returns; the other may block forever in its Collect.
HangSpec ==
    /\ Init /\ [][Next]_vars
    /\ WF_vars(ProgramStart)
    /\ WF_vars(Tick)
    /\ WF_vars(ConnTimer)
    /\ WF_vars(ConnectivityDone)
    /\ (WF_vars(TrafficDone) \/ WF_vars(KernelDone))

-----------------------------------------------------------------------------
(* checkDNS (src/internal/collector/tunnel_test.go): the system resolver's
   lookup of google.com, then the same lookup through a resolver that dials
   1.1.1.1:53 *)

MaxLatency == 5

\* what the network does to one call: how each lookup ends and how long it
\* takes
DNSCheckEnvs ==
    [local : {"ok", "err"}, localTime : 1..MaxLatency,
     public : {"ok", "err", "timeout"}, publicTime : 1..MaxLatency]

\* checkDNS
checkDNS(e) ==
    [LocalResolverTime  |-> e.localTime,
     PublicResolverTime |-> e.publicTime,
     Error              |-> IF e.local # "ok" THEN "err" ELSE NoError]

OtherThanDNSCheck == <<loopVars, trafficVars, kernelVars, natVars, dnsLookup, tunnel, ping, publicIP, natCollect, connectivity, overlap>>

CheckDNS(e) ==
    /\ ~dnsCheck.called
    /\ dnsCheck' = [called |-> TRUE, env |-> e, res |-> checkDNS(e)]
    /\ UNCHANGED OtherThanDNSCheck

DNSCheckNext == \E e \in DNSCheckEnvs : CheckDNS(e)

DNSCheckSpec == Init /\ [][DNSCheckNext]_vars

-----------------------------------------------------------------------------
(* Two overlapping Collect calls on one collector: TrafficCollector.Collect
   (src/internal/ui/styles.go) and KernelCollector.Collect
   (src/internal/collector/kernel_stats.go), followed statement by statement
   around c.mu *)

OverlapKinds == {"traffic", "kernel"}

\* What one call meets: how its read ends (a value, an error, a panic) and
\* what it read
OverlapInputs(kind) ==
    IF kind = "traffic"
    THEN [read : {"ok"},
          counters : {r \in Readings : \A n \in DOMAIN r : r[n].BytesSent = 1000},
          file : {NoFile}, diag : {FALSE}]
         \cup [read : {"err", "panic"}, counters : {<<>>}, file : {NoFile}, diag : {FALSE}]
    ELSE [read : {"ok"}, counters : {<<>>},
          file : {File(<<TcpHeader, TcpValues(r, o), UdpHeader, UdpValues>>) :
                    r \in {"5", "15"}, o \in {"1000", "2000"}},
          diag : BOOLEAN]
         \cup [read : {"err", "panic"}, counters : {<<>>}, file : {NoFile}, diag : {FALSE}]

\* The collector a call finds: fresh, or holding one earlier sample
Seeded(seed) ==
    IF ~seed THEN NoOverlap.c
    ELSE [traffic |-> TrafficCollectorCollect(NoOverlap.c.traffic, 1,
                          [n \in {"eth0"} |-> [BytesRecv |-> 1000, BytesSent |-> 1000]],
                          TRUE).c,
          kernel |-> KernelCollectorCollect(NoOverlap.c.kernel,
                          File(<<TcpHeader, TcpValues("5", "1000"), UdpHeader, UdpValues>>),
                          TRUE).c]

\* One whole Collect on collector c at time t: the collector it leaves and
\* what it returns. A panic is recovered into the error; the named result
\* keeps what was assigned before it.
CollectStep(kind, c, t, in) ==
    IF kind = "traffic"
    THEN LET r == TrafficCollectorCollect(c.traffic, t, in.counters, in.read = "ok")
         IN  [c |-> [c EXCEPT !.traffic = r.c],
              out |-> IF in.read = "panic" THEN [r.stats EXCEPT !.err = "panic"]
                      ELSE r.stats]
    ELSE LET r == KernelCollectorCollect(c.kernel,
                      IF in.read = "ok" THEN in.file ELSE NoFile, in.diag)
         IN  [c |-> [c EXCEPT !.kernel = r.c],
              out |-> IF in.read = "panic" THEN [r.stats EXCEPT !.Error = "panic"]
                      ELSE KernelMsgOf(r)]

\* c.mu.Lock() that does not wait for the holder
LockBarging(mu) == TRUE

\* c.mu.Lock() returns only when nobody holds the mutex
Lock(mu) == mu = 0

OtherThanOverlap == <<loopVars, trafficVars, kernelVars, natVars, dnsLookup, tunnel, ping, publicIP, natCollect, connectivity, dnsCheck>>

\* Two goroutines call Collect on the same collector
OverlapStart(kind, seed) ==
    /\ overlap.kind = ""
    /\ overlap' = [overlap EXCEPT
                     !.kind = kind, !.c = Seeded(seed), !.c0 = Seeded(seed),
                     !.g = [i \in 1..2 |-> [pc |-> "lock", now |-> 0, in |-> NoError,
                                            out |-> NoError, new |-> NoError]]]
    /\ UNCHANGED OtherThanOverlap

\* c.mu.Lock()
OverlapLock(i) ==
    /\ i \in DOMAIN overlap.g
    /\ overlap.g[i].pc = "lock"
    /\ Lock(overlap.mu)
    /\ overlap' = [overlap EXCEPT !.mu = i, !.g[i].pc = "read",
                                  !.order = Append(overlap.order, i)]
    /\ UNCHANGED OtherThanOverlap

\* now := time.Now(), the read of the source and the rates computed from the
\* collector's stored sample; an error or a panic goes straight to the
\* deferred calls
OverlapRead(i, in) ==
    /\ i \in DOMAIN overlap.g
    /\ overlap.g[i].pc = "read"
    /\ LET r == CollectStep(overlap.kind, overlap.c, overlap.clock, in)
       IN  overlap' = [overlap EXCEPT
                         !.g[i] = [pc |-> IF in.read = "ok" THEN "store" ELSE "unlock",
                                   now |-> overlap.clock, in |-> in,
                                   out |-> r.out, new |-> r.c]]
    /\ UNCHANGED OtherThanOverlap

\* c.lastStats[...] = counter, c.lastTime = now; c.lastRetrans, c.lastOutSegs
OverlapStore(i) ==
    /\ i \in DOMAIN overlap.g
    /\ overlap.g[i].pc = "store"
    /\ overlap' = [overlap EXCEPT !.c = overlap.g[i].new, !.g[i].pc = "unlock"]
    /\ UNCHANGED OtherThanOverlap

\* defer c.mu.Unlock(), then the deferred recover
OverlapUnlock(i) ==
    /\ i \in DOMAIN overlap.g
    /\ overlap.g[i].pc = "unlock"
    /\ overlap' = [overlap EXCEPT !.mu = 0, !.g[i].pc = "returned"]
    /\ UNCHANGED OtherThanOverlap

\* time passes while the calls are in flight
OverlapTick ==
    /\ \E i \in DOMAIN overlap.g : overlap.g[i].pc # "returned"
    /\ overlap.clock < MaxTime
    /\ overlap' = [overlap EXCEPT !.clock = overlap.clock + 1]
    /\ UNCHANGED OtherThanOverlap

OverlapNext ==
    \/ \E kind \in OverlapKinds, seed \in BOOLEAN : OverlapStart(kind, seed)
    \/ \E i \in 1..2 : OverlapLock(i)
    \/ \E i \in 1..2, in \in OverlapInputs(overlap.kind) : OverlapRead(i, in)
    \/ \E i \in 1..2 : OverlapStore(i)
    \/ \E i \in 1..2 : OverlapUnlock(i)
    \/ OverlapTick

OverlapSpec == Init /\ [][OverlapNext]_vars

-----------------------------------------------------------------------------
(* Properties *)

\* Messages the loop may be handed in any state: a key, a tick, a resize,
\* and each result message with a good, a failed and an answered snapshot.
SampleMsgs ==
    {KeyMsg(k) : k \in Keys \cup {"ctrl+c", "left", "right", "down", "up", "ctrl+t",
                                  "ctrl+p", "ctrl+down", "ctrl+up", "backspace", "a"}}
    \cup {TickMsg, WindowSizeMsg}
    \cup {Msg(kind, snap) :
            kind \in {"SystemInfoMsg", "ConnectivityMsg", "NatMsg", "TrafficMsg",
                      "KernelMsg", "DNSMsg", "DNSPingMsg"},
            snap \in {Snap("valid", NoError), Snap("empty", "err"),
                      [Snap("valid", NoError) EXCEPT !.Records = <<IPRecord>>]}}

\* The snapshot slot a result message fills
Slot(kind) ==
    CASE kind = "SystemInfoMsg" -> m.HostInfo
      [] kind = "ConnectivityMsg" -> m.Connectivity
      [] kind = "NatMsg" -> m.NatInfo
      [] kind = "TrafficMsg" -> m.Traffic
      [] kind = "KernelMsg" -> m.Kernel
      [] kind = "DNSMsg" -> m.DNSResult
      [] kind = "DNSPingMsg" -> m.DNSPing

Flag(b) == IF b THEN 1 ELSE 0

\* C1: while the loop runs, the number of outstanding traffic (kernel)
\* invocations is 1 when LoadingTraffic (LoadingKernel) is set and 0 when it
\* is not; only a TickMsg starts one, and only when the flag is clear, only
\* a TickMsg sets the flag and only the matching result message clears it.
C1_PeriodicAtMostOne ==
    /\ Running =>
        /\ CopiesIn(fetchTraffic, cmds) = Flag(m.LoadingTraffic)
        /\ CopiesIn(fetchKernel, cmds) = Flag(m.LoadingKernel)
    /\ \A msg \in SampleMsgs :
        LET r == Update(m, msg)
        IN  /\ Starts(r.cmds, "fetchTraffic") =
                   Flag(msg.kind = "TickMsg" /\ ~m.LoadingTraffic)
            /\ Starts(r.cmds, "fetchKernel") =
                   Flag(msg.kind = "TickMsg" /\ ~m.LoadingKernel)
            /\ r.m.LoadingTraffic =
                   CASE msg.kind = "TickMsg" -> TRUE
                     [] msg.kind = "TrafficMsg" -> FALSE
                     [] OTHER -> m.LoadingTraffic
            /\ r.m.LoadingKernel =
                   CASE msg.kind = "TickMsg" -> TRUE
                     [] msg.kind = "KernelMsg" -> FALSE
                     [] OTHER -> m.LoadingKernel

\* A second traffic invocation is outstanding after the first was handled.
C1_Witness ==
    /\ Running
    /\ origin.TrafficMsg # ""
    /\ m.LoadingTraffic
    /\ CopiesIn(fetchTraffic, cmds) = 1
    /\ ~m.LoadingKernel

\* C2: no two outstanding DNS lookups have the same domain, record type and
\* server.
C2_OneLookupPerTuple ==
    \A c, d \in BagToSet(cmds) :
        /\ c.cmd = "fetchDNS" /\ d.cmd = "fetchDNS"
        /\ c.domain = d.domain /\ c.recordType = d.recordType /\ c.server = d.server
        => c.seq = d.seq

\* The lookups whose DNSMsg the loop has handled
HandledLookups ==
    {n \in 1..lookups : \A c \in BagToSet(cmds) : ~(c.cmd = "fetchDNS" /\ c.seq = n)}

\* C3: the DNS result shown is never older than a result already handled.
C3_NewerResultKept ==
    Running /\ m.DNSResult # None => \A n \in HandledLookups : n <= m.DNSResult.seq

\* C4: a snapshot of an invocation whose source failed carries an error.
C4_FailureCarriesError ==
    \A kind \in {"TrafficMsg", "KernelMsg", "DNSMsg", "DNSPingMsg"} :
        origin[kind] = "fail" /\ Slot(kind) # None => Slot(kind).Error # NoError

\* C5: a panic in a probe body never ends the process, and the snapshot of
\* that invocation carries an error.
C5_PanicCaught ==
    /\ ~crashed
    /\ \A kind \in DOMAIN origin \ {"TickMsg"} :
        origin[kind] = "panic" /\ Slot(kind) # None => Slot(kind).Error # NoError

\* C6: while the loop runs exactly one tick is pending; handling a TickMsg
\* arms exactly one, no other message arms any.
C6_OneTickPending ==
    /\ Starts(ModelInit, "tick") = 1
    /\ Running => CopiesIn(tickTraffic, cmds) = 1
    /\ \A msg \in SampleMsgs :
        Starts(Update(m, msg).cmds, "tick") = Flag(msg.kind = "TickMsg")

\* A tick was handled while both periodic probes were still in flight.
C6_Witness ==
    /\ Running
    /\ origin.TickMsg = "ok"
    /\ m.LoadingTraffic /\ m.LoadingKernel
    /\ origin.TrafficMsg = "" /\ origin.KernelMsg = ""
    /\ CopiesIn(tickTraffic, cmds) = 1

\* C7: while the loop runs exactly one connectivity invocation is scheduled
\* or running; handling a ConnectivityMsg schedules exactly one, after the
\* delay, and no other message schedules or starts one.
C7_ConnectivityChain ==
    /\ Starts(ModelInit, "fetchConnectivity") = 1 /\ Starts(ModelInit, "connTick") = 0
    /\ Running => CopiesIn(connTick, cmds) + CopiesIn(fetchConnectivity, cmds) = 1
    /\ \A msg \in SampleMsgs :
        LET r == Update(m, msg)
        IN  /\ Starts(r.cmds, "connTick") = Flag(msg.kind = "ConnectivityMsg")
            /\ Starts(r.cmds, "fetchConnectivity") = 0

\* The second invocation of the chain is running.
C7_Witness ==
    /\ Running
    /\ origin.ConnectivityMsg = "ok"
    /\ ~m.LoadingConn
    /\ BagIn(fetchConnectivity, cmds)

\* C8: the system and NAT probes are started by Model.Init, once, and by no
\* message; a lookup is started only by Enter on the DNS tab and a ping only
\* by a DNSMsg.
C8_OneShotProbes ==
    /\ Starts(ModelInit, "fetchSystemInfo") = 1 /\ Starts(ModelInit, "fetchNatInfo") = 1
    /\ Starts(ModelInit, "fetchDNS") = 0 /\ Starts(ModelInit, "fetchSinglePing") = 0
    /\ Running =>
        /\ CopiesIn(fetchSystemInfo, cmds) = Flag(m.LoadingSystem)
        /\ CopiesIn(fetchNatInfo, cmds) = Flag(m.LoadingNat)
    /\ \A msg \in SampleMsgs :
        LET r == Update(m, msg)
        IN  /\ Starts(r.cmds, "fetchSystemInfo") = 0
            /\ Starts(r.cmds, "fetchNatInfo") = 0
            /\ Starts(r.cmds, "fetchDNS") > 0 =>
                   msg.kind = "KeyMsg" /\ msg.key = "enter" /\ m.ActiveTab = TabDNS
            /\ Starts(r.cmds, "fetchSinglePing") > 0 => msg.kind = "DNSMsg"

\* Both start-up probes are done and a ping started by a DNSMsg is running.
C8_Witness ==
    /\ Running
    /\ ~m.LoadingSystem /\ ~m.LoadingNat
    /\ \E c \in BagToSet(cmds) : c.cmd = "fetchSinglePing"
    /\ origin.DNSMsg = "ok"

\* C9: unless the user quits, traffic and kernel probes are started and
\* their results handled again and again, and a failed sample is always
\* followed by a new invocation of the same probe.
C9_PeriodicRefresh ==
    /\ []<>(quit \/ m.LoadingTraffic) /\ []<>(quit \/ ~m.LoadingTraffic)
    /\ []<>(quit \/ m.LoadingKernel) /\ []<>(quit \/ ~m.LoadingKernel)
    /\ []<>(quit \/ origin.TrafficMsg # "fail" \/ m.LoadingTraffic)
    /\ []<>(quit \/ origin.KernelMsg # "fail" \/ m.LoadingKernel)

\* A traffic probe is in flight again after a failed sample was handled.
C9_Witness ==
    /\ Running
    /\ origin.TrafficMsg = "fail" /\ m.Traffic.data = "empty"
    /\ m.LoadingTraffic /\ BagIn(fetchTraffic, cmds)
    /\ origin.KernelMsg = "fail" /\ m.Kernel.Error # NoError

\* C10: in every successful Collect result each interface carries the
\* current counters; a rate is (current - prior) / elapsed when the interface
\* has a prior sample, the counter did not decrease and time has passed since
\* the previous sample, and 0 otherwise, rx and tx each on its own; 1000 then
\* 3048 one second later is a rate of 2048.
C10_Rates ==
    samples.ok =>
        /\ stats.err = NoError
        /\ DOMAIN stats.Interfaces = DOMAIN samples.counters
        /\ \A n \in DOMAIN samples.counters :
            LET cur == samples.counters[n]
                t == stats.Interfaces[n]
                elapsed == samples.time - samples.last
                hasPrior == samples.last # 0 /\ n \in DOMAIN samples.prior
                prior == samples.prior[n]
            IN  /\ t.RxBytes = cur.BytesRecv
                /\ t.TxBytes = cur.BytesSent
                /\ IF hasPrior /\ elapsed > 0 /\ cur.BytesRecv >= prior.BytesRecv
                   THEN RateEq(t.RxRate, Rate(cur.BytesRecv - prior.BytesRecv, elapsed))
                   ELSE RateEq(t.RxRate, ZeroRate)
                /\ IF hasPrior /\ elapsed > 0 /\ cur.BytesSent >= prior.BytesSent
                   THEN RateEq(t.TxRate, Rate(cur.BytesSent - prior.BytesSent, elapsed))
                   ELSE RateEq(t.TxRate, ZeroRate)
                /\ (hasPrior /\ elapsed = 1 /\ prior.BytesRecv = 1000 /\ cur.BytesRecv = 3048)
                       => RateEq(t.RxRate, Rate(2048, 1))
                /\ (hasPrior /\ cur.BytesRecv = prior.BytesRecv) => RateEq(t.RxRate, ZeroRate)

\* eth0 received 2048 bytes in one second while its sent counter fell back.
C10_Witness ==
    /\ samples.ok /\ samples.last # 0 /\ samples.time - samples.last = 1
    /\ "eth0" \in DOMAIN samples.counters /\ "eth0" \in DOMAIN samples.prior
    /\ samples.prior["eth0"].BytesRecv = 1000 /\ samples.counters["eth0"].BytesRecv = 3048
    /\ samples.prior["eth0"].BytesSent = 3048 /\ samples.counters["eth0"].BytesSent = 1000
    /\ stats.Interfaces["eth0"].RxRate = Rate(2048, 1)
    /\ stats.Interfaces["eth0"].TxRate = ZeroRate
    /\ stats.Interfaces["eth0"].RxBytes = 3048

\* A file with the Tcp and Udp sections, each a header line followed by a
\* values line of as many fields, every value a number
WellFormed(file) ==
    /\ file.readable
    /\ \E r \in RetransTokens, o \in OutSegsTokens :
        /\ ParseFloat(r).ok /\ ParseFloat(o).ok
        /\ file.lines = <<TcpHeader, TcpValues(r, o), UdpHeader, UdpValues>>

\* The Tcp counter the kernel reported in a file that was read
Counter(file, name) == SnmpValue(parseNetSnmp(file).result, "Tcp", name)

C12_RetransRate ==
    /\ kernelSamples.ok /\ WellFormed(kernelSamples.file)
    /\ kernelSamples.count > 0 => WellFormed(kernelSamples.prior)
    =>
        LET r == Counter(kernelSamples.file, "RetransSegs")
            o == Counter(kernelSamples.file, "OutSegs")
            lastRetrans == Counter(kernelSamples.prior, "RetransSegs")
            lastOutSegs == Counter(kernelSamples.prior, "OutSegs")
            expected ==
                IF kernelSamples.count = 0
                THEN IF o > 0 THEN Rate(100 * r, o) ELSE ZeroRate
                ELSE IF o - lastOutSegs > 0
                     THEN Rate(100 * (r - lastRetrans), o - lastOutSegs)
                     ELSE ZeroRate
        IN  RateEq(kernelStats.TCPRetransRate, expected)

\* C13: a sample after the first whose OutSegs delta is positive reports a
\* rate between 0 and 100 (for well-formed files).
C13_RateBounded ==
    /\ kernelSamples.ok /\ kernelSamples.count > 0
    /\ WellFormed(kernelSamples.file) /\ WellFormed(kernelSamples.prior)
    /\ Counter(kernelSamples.file, "OutSegs") - Counter(kernelSamples.prior, "OutSegs") > 0
    => /\ kernelStats.TCPRetransRate.den > 0
       /\ kernelStats.TCPRetransRate.num >= 0
       /\ kernelStats.TCPRetransRate.num <= 100 * kernelStats.TCPRetransRate.den

\* C14: a Collect that read a file it could not open or whose content is
\* malformed yields a snapshot with the error set.
C14_ParseFailureIsError ==
    kernelSamples.called /\ ~WellFormed(kernelSamples.file) => kernelStats.Error # NoError

\* The UDP socket of the last probe was opened and its STUN client created
SocketOpened == natProbe.probed /\ natProbe.dial /\ natProbe.client

\* C15: when the socket was opened and the send or the receive failed, the
\* NatInfo is UDP Blocked with an error and a local address.
C15_BlockedOnFailure ==
    SocketOpened /\ (~natProbe.send \/ natProbe.event \in {"error", "timeout", "late"}) =>
        /\ natInfo.NatType = NatUdpBlocked
        /\ natInfo.Error # NoError
        /\ natInfo.LocalIP # ""

\* C16: when the callback completes on a response, PublicIP is the
\* XOR-Mapped-Address if it decodes, else the Mapped-Address; with a public
\* address the type is Open Internet exactly when it equals the local
\* address and Behind NAT otherwise, without error; with none the type is
\* Unknown with an error. No probe returns a cone or symmetric type.
C16_Classification ==
    /\ natInfo.NatType \notin
           {NatFullCone, NatRestrictedCone, NatPortRestrictedCone, NatSymmetric}
    /\ SocketOpened /\ natProbe.send /\ natProbe.event = "response" =>
        /\ natInfo.LocalIP = natProbe.localIP
        /\ natProbe.xor # "" => natInfo.PublicIP = natProbe.xor
        /\ natProbe.xor = "" => natInfo.PublicIP = natProbe.mapped
        /\ IF natProbe.xor # "" \/ natProbe.mapped # ""
           THEN /\ natInfo.PublicIP # ""
                /\ natInfo.Error = NoError
                /\ natInfo.NatType = NatOpenInternet <=> natInfo.PublicIP = natInfo.LocalIP
                /\ natInfo.NatType = NatBehindNat <=> natInfo.PublicIP # natInfo.LocalIP
           ELSE natInfo.NatType = NatUnknown /\ natInfo.Error # NoError

\* XOR-Mapped-Address and Mapped-Address both decode and differ; the public
\* address is the XOR one and equals the local address.
C16_Witness ==
    /\ SocketOpened /\ natProbe.send /\ natProbe.event = "response"
    /\ natProbe.xor = "1.2.3.4" /\ natProbe.mapped = "5.6.7.8"
    /\ natProbe.localIP = "1.2.3.4"
    /\ natInfo.PublicIP = "1.2.3.4"
    /\ natInfo.NatType = NatOpenInternet
    /\ natInfo.Error = NoError

\* C17: a lookup whose domain parses as an IP address is sent as a PTR
\* query for the reverse-address name whatever record type was selected,
\* and Auto with a domain that is no IP address is sent as an A query for
\* the domain.
C17_PtrForIP ==
    dnsLookup.pc # "idle" =>
        /\ ParseIP(dnsLookup.domain) =>
             /\ dnsLookup.query.qtype = "PTR"
             /\ dnsLookup.query.name = ReverseAddr(dnsLookup.domain).name
             /\ Len(dnsLookup.query.name) = 73
             /\ dnsLookup.result.Error # "invalid IP for reverse lookup"
        /\ (~ParseIP(dnsLookup.domain) /\ dnsLookup.recordType = "Auto") =>
             dnsLookup.query = [name |-> dnsLookup.domain \o <<".">>, qtype |-> "A"]

\* The address ::1 looked up with record type A selected: the question
\* answered was PTR 1.0.0. ... .ip6.arpa.
C17_Witness ==
    /\ dnsLookup.pc = "done"
    /\ dnsLookup.domain = <<":", ":", "1">>
    /\ dnsLookup.recordType = "A"
    /\ dnsLookup.result.answered
    /\ dnsLookup.query.qtype = "PTR"
    /\ SubSeq(dnsLookup.query.name, 1, 4) = <<"1", ".", "0", ".">>
    /\ SubSeq(dnsLookup.query.name, 63, 73) = <<"0", ".", "i", "p", "6", ".", "a", "r", "p", "a", ".">>

\* C18: the transport a lookup used and the Protocol of its result are
\* those of the protocol selected for the server, for each of UDP, TCP,
\* DoT and DoH.
C18_TransportMatches ==
    (dnsLookup.pc = "done" /\ dnsLookup.query # NoQuery) =>
        /\ dnsLookup.result.Protocol = dnsLookup.proto
        /\ dnsLookup.net = CASE dnsLookup.proto = "UDP" -> "udp"
                             [] dnsLookup.proto = "TCP" -> "tcp"
                             [] dnsLookup.proto = "DoT" -> "tcp-tls"
                             [] OTHER -> "https"

\* C19: a result for DoT or DoH with an empty error carries a CertInfo, and
\* a result for UDP or TCP carries none.
C19_CertInfo ==
    (dnsLookup.pc = "done" /\ dnsLookup.result.answered /\ dnsLookup.result.Error = NoError) =>
        /\ dnsLookup.result.Protocol \in {"DoT", "DoH"} => dnsLookup.result.CertInfo
        /\ dnsLookup.result.Protocol \in {"UDP", "TCP"} => ~dnsLookup.result.CertInfo

\* C20: every lookup that fetchDNS started eventually returns its result,
\* on each transport, also from a server that accepts the connection and
\* never answers.
C20_LookupReturns == (dnsLookup.pc # "idle") ~> (dnsLookup.pc = "done")

\* The ping target the lookup's own query and answer give: the domain
\* queried if it is an IP, else the last field of the first record whose
\* last field is an IP, else none.
TargetOfQuery(res) ==
    LET hits == {i \in 1..Len(res.Records) :
                    /\ Len(res.Records[i]) > 0
                    /\ ParseIP(res.Records[i][Len(res.Records[i])])}
    IN  IF ParseIP(res.domain) THEN res.domain
        ELSE IF hits = {} THEN <<>>
        ELSE res.Records[CHOOSE j \in hits : \A h \in hits : j <= h][Len(IPRecord)]

\* C21: the ping that follows a lookup targets what that lookup's original
\* query and answer give, and no ping follows a lookup that failed or gave
\* no IP, whatever the domain input holds when the result arrives.
C21_PingTargetOfQuery ==
    \A c \in BagToSet(cmds) :
        (c.cmd = "fetchSinglePing" /\ m.DNSResult # None /\ m.DNSResult.seq = c.seq) =>
            /\ m.DNSResult.Error = NoError
            /\ c.target = TargetOfQuery(m.DNSResult)

\* C22: a tunnel with transport socks5 or http and no proxy address, and a
\* tunnel with an unsupported transport, gets Status "Error" with an error,
\* and nothing is dialed for it.
C22_NoDialWithoutProxy ==
    LET refused(cfg) ==
            \/ cfg.Transport \in {"socks5", "http"} /\ cfg.Proxy = <<>>
            \/ cfg.Transport \notin {"tcp", "udp", "tls", "dtls", "socks5", "http"}
    IN  /\ \A i \in 1..Len(tunnel.results) :
              refused(tunnel.Config[i]) =>
                  /\ tunnel.results[i].Status = "Error"
                  /\ tunnel.results[i].Error # NoError
                  /\ ~tunnel.log[i].dialed /\ ~tunnel.log[i].opened
        /\ tunnel.pc \in {"dial", "dtls", "socks", "connect", "app"} =>
              ~refused(tunnel.Config[tunnel.i])

\* Collect returned for an http tunnel without proxy followed by a tunnel
\* with an unsupported transport
C22_Witness ==
    /\ tunnel.pc = "returned"
    /\ Len(tunnel.results) = 2
    /\ tunnel.Config[1].Transport = "http" /\ tunnel.Config[1].Proxy = <<>>
    /\ tunnel.Config[2].Transport = "kcp"
    /\ tunnel.results[1].Error = "proxy address required for http proxy"
    /\ tunnel.results[2].Error = "unsupported transport protocol"

\* C23: between two tunnel tests and when Collect returns no transport
\* connection is open, whichever way the test ended.
C23_ConnectionsClosed ==
    /\ tunnel.open \in {0, 1}
    /\ tunnel.pc \in {"idle", "start", "returned"} => tunnel.open = 0

\* A test that failed after the proxy connection was opened, followed by a
\* test whose application check ran
C23_Witness ==
    /\ tunnel.pc = "returned"
    /\ Len(tunnel.log) = 2
    /\ tunnel.Config[1].Transport = "http"
    /\ tunnel.log[1].opened /\ ~tunnel.log[1].established
    /\ tunnel.log[2].checked /\ tunnel.results[2].Status = "OK"
    /\ tunnel.open = 0

\* C24: every tunnel test terminates, so Collect returns, also when the
\* peer or proxy accepts the connection and never answers.
C24_CollectReturns == (tunnel.pc # "idle") ~> (tunnel.pc = "returned")

\* C25: Collect returns one result per configured tunnel in configuration
\* order; Status is "OK" exactly when Error is nil, exactly when the
\* transport was established and the application check passed.
C25_OneResultPerTunnel ==
    LET passes(app, reply) ==
            CASE app \in {"tcp", "udp"} -> TRUE
              [] app = "http" -> ~reply.err /\ reply.status \in 200..399
              [] app = "ws" -> ~reply.err /\ reply.status = 101
              [] app = "socks5" -> ~reply.err /\ reply.ver = 5 /\ reply.method # 255
              [] app = "tls" -> ~reply.err
              [] OTHER -> FALSE
    IN  /\ tunnel.pc = "returned" => Len(tunnel.results) = Len(tunnel.Config)
        /\ \A i \in 1..Len(tunnel.results) :
              /\ tunnel.results[i].App = tunnel.Config[i].App
              /\ tunnel.results[i].Transport = tunnel.Config[i].Transport
              /\ tunnel.results[i].Status = "OK" <=> tunnel.results[i].Error = NoError
              /\ tunnel.results[i].Error = NoError <=>
                    /\ tunnel.log[i].established
                    /\ passes(tunnel.Config[i].App, tunnel.log[i].reply)

\* A failing tunnel followed by an http check answered 399
C25_Witness ==
    /\ tunnel.pc = "returned"
    /\ Len(tunnel.results) = 2
    /\ tunnel.results[1].Status = "Error"
    /\ tunnel.Config[2].App = "http"
    /\ tunnel.log[2].reply.status = 399
    /\ tunnel.results[2].Status = "OK"

\* C27: whenever the ICMP ping fails (the pinger cannot be created, or Run
\* returns an error), the result is that of a TCP connect to port 80, then
\* 443: loss 0 and min = avg = max = the latency of the handshake that
\* succeeded, or loss 100 with the error set when both fail.
C27_TcpFallback ==
    (ping.called /\ (~ping.env.newPinger \/ ping.env.run # "ok")) =>
        LET e == ping.env
            r == ping.res
            timed(d) == r.PacketLoss = 0 /\ r.Error = NoError
                        /\ r.MinRtt = d /\ r.AvgRtt = d /\ r.MaxRtt = d
        IN  IF e.tcp80 THEN timed(e.d80)
            ELSE IF e.tcp443 THEN timed(e.d443)
            ELSE r.PacketLoss = 100 /\ r.Error # NoError

\* C28: every provider tried is given its own 3 seconds, and Collect
\* returns the ip and provider of the first provider in list order that
\* answers 200 with a trimmed body of 1 to 45 characters within them, the
\* providers after it not contacted; the error only if no provider does.
C28_FirstProviderWins ==
    LET answers(e) == /\ e.kind = "answer" /\ e.d < ClientTimeout /\ e.status = 200
                      /\ Len(TrimSpace(e.body)) \in 1..45
        good == {i \in 1..Len(publicIP.log) : answers(publicIP.log[i].env)}
    IN  /\ \A i \in 1..Len(publicIP.log) : publicIP.log[i].allowed = ClientTimeout
        /\ publicIP.pc = "loop" => good = {}
        /\ publicIP.pc = "returned" =>
              IF good = {}
              THEN /\ publicIP.info.IP = <<>> /\ publicIP.info.Error # NoError
                   /\ Len(publicIP.log) = Len(providers)
              ELSE /\ good = {Len(publicIP.log)}
                   /\ publicIP.info.Provider = providers[Len(publicIP.log)]
                   /\ publicIP.info.IP = TrimSpace(publicIP.log[Len(publicIP.log)].env.body)
                   /\ publicIP.info.Error = NoError

C30_OneInfoPerTarget ==
    LET n == Len(natCollect.Targets)
        count(seq, t) == Cardinality({i \in 1..Len(seq) : seq[i] = t})
        names == [i \in 1..Len(natCollect.results) |-> natCollect.results[i].Target]
    IN  /\ (\E i \in 1..n : natCollect.workers[i] = "probing") =>
              Len(natCollect.ch) < natCollect.cap
        /\ natCollect.pc = "returned" =>
              /\ Len(natCollect.results) = n
              /\ \A i \in 1..n : natCollect.workers[i] = "sent"
              /\ \A i \in 1..n :
                    count(names, natCollect.Targets[i]) = count(natCollect.Targets, natCollect.Targets[i])
              /\ natCollect.ch = <<>>
        /\ (natCollect.pc # "idle" /\ n = 0) =>
              natCollect.pc = "returned" /\ natCollect.results = <<>>

\* Three targets, the probe of the last one received first
C30_Witness ==
    /\ natCollect.pc = "returned"
    /\ Len(natCollect.Targets) = 3
    /\ natCollect.Targets[1] # natCollect.Targets[3]
    /\ natCollect.results[1].Target = natCollect.Targets[3]
    /\ natCollect.results[1].info.Error = "stun request timed out"
    /\ natCollect.results[2].info.NatType = NatBehindNat

\* C26: when Collect returns every worker has stored its result: the
\* Targets map has one entry for each configured target, plus one for the
\* gateway when it was found and is not configured, and no other; the
\* collector's own target list is as configured.
C26_AllWorkersStored ==
    LET c == connectivity
        expected == {c.configured[i] : i \in 1..Len(c.configured)}
                    \cup (IF c.gw # "" THEN {c.gw} ELSE {})
    IN  /\ c.Targets = c.configured
        /\ c.pc = "returned" =>
              /\ DOMAIN c.stats.Targets = expected
              /\ \A t \in expected : c.stats.Targets[t].Target = t
              /\ c.stats.DNS
              /\ c.mu = 0

\* The default list and a gateway outside it: three entries, the
\* gateway's worker the last to store
C26_Witness ==
    /\ connectivity.pc = "returned"
    /\ connectivity.configured = <<"8.8.8.8", "baidu.com">>
    /\ connectivity.gw = "192.168.1.1"
    /\ DOMAIN connectivity.stats.Targets = {"8.8.8.8", "baidu.com", "192.168.1.1"}
    /\ connectivity.stats.Targets["192.168.1.1"].PacketLoss = 100
    /\ connectivity.stats.Targets["baidu.com"].PacketLoss = 0

\* C31: every PingResult has a PacketLoss between 0 and 100, and when its
\* Error is set its MinRtt, AvgRtt and MaxRtt are all zero.
C31_PingResultShape ==
    LET shaped(r) ==
            /\ r.PacketLoss >= 0 /\ r.PacketLoss <= 100
            /\ r.Error # NoError => r.MinRtt = 0 /\ r.AvgRtt = 0 /\ r.MaxRtt = 0
    IN  /\ ping.called => shaped(ping.res) /\ shaped(tcpPing(ping.res.Target, ping.env))
        /\ ping.called => ping.res.Target \in PingTargets

\* ICMP was not permitted and both connects failed after 2 seconds each
C31_Witness ==
    /\ ping.called
    /\ ping.env.newPinger /\ ping.env.run = "permission"
    /\ ~ping.env.tcp80 /\ ~ping.env.tcp443 /\ ping.env.d80 = 2 /\ ping.env.d443 = 2
    /\ ping.res.Error # NoError
    /\ ping.res.PacketLoss = 100
    /\ ping.res.MaxRtt = 0

\* C32: when the DNS timing snapshot has no Error, both the system
\* resolver's lookup and the forced 1.1.1.1 lookup succeeded.
C32_SelfDescribing ==
    dnsCheck.called /\ dnsCheck.res.Error = NoError
        => dnsCheck.env.local = "ok" /\ dnsCheck.env.public = "ok"

\* The result messages of the probes
ResultMsgs == {msg \in SampleMsgs : msg.kind \notin {"KeyMsg", "TickMsg", "WindowSizeMsg"}}

\* The model's fields other than the snapshot slot and the loading flag of
\* a result message of this kind
OtherFields(kind) ==
    DOMAIN m \ (CASE kind = "SystemInfoMsg" -> {"HostInfo", "LoadingSystem"}
                  [] kind = "ConnectivityMsg" -> {"Connectivity", "LoadingConn"}
                  [] kind = "NatMsg" -> {"NatInfo", "LoadingNat"}
                  [] kind = "TrafficMsg" -> {"Traffic", "LoadingTraffic"}
                  [] kind = "KernelMsg" -> {"Kernel", "LoadingKernel"}
                  [] kind = "DNSMsg" -> {"DNSResult", "LoadingDNS"}
                  [] kind = "DNSPingMsg" -> {"DNSPing", "LoadingDNSPing"})

\* C33: from every state of the loop, handling two result messages of
\* different probe kinds in either order gives the same model, and a result
\* message changes no field other than its own snapshot slot and its own
\* loading flag.
C33_ResultsCommute ==
    started =>
        /\ \A a, b \in ResultMsgs :
               a.kind # b.kind =>
                   Update(Update(m, a).m, b).m = Update(Update(m, b).m, a).m
        /\ \A a \in ResultMsgs :
               \A f \in OtherFields(a.kind) : Update(m, a).m[f] = m[f]

\* C34: two overlapping Collect calls on one collector are serialized by its
\* mutex. Once both returned, the collector and both results are those of
\* running the calls one after the other in the order they took the mutex
\* (so the later one computed its rate against the sample the earlier one
\* stored), the earlier traffic sample's Timestamp is not after the later
\* one's, and a call that returned, early or through a panic, does not hold
\* the mutex.
C34_Serialized ==
    LET o == overlap
        a == o.order[1]
        b == o.order[2]
        r1 == CollectStep(o.kind, o.c0, o.g[a].now, o.g[a].in)
        r2 == CollectStep(o.kind, r1.c, o.g[b].now, o.g[b].in)
    IN  /\ \A i \in DOMAIN o.g : o.g[i].pc \in {"lock", "returned"} => o.mu # i
        /\ (o.kind # "" /\ \A i \in DOMAIN o.g : o.g[i].pc = "returned") =>
               /\ o.mu = 0
               /\ o.c = r2.c
               /\ o.g[a].out = r1.out
               /\ o.g[b].out = r2.out
               /\ o.kind = "traffic" => o.g[a].out.Timestamp <= o.g[b].out.Timestamp

\* the first call panicked in its read, the second one then sampled eth0 and
\* reported its rate against the sample stored before both
C34_Witness ==
    /\ overlap.kind = "traffic"
    /\ overlap.order = <<2, 1>>
    /\ \A i \in DOMAIN overlap.g : overlap.g[i].pc = "returned"
    /\ overlap.g[2].in.read = "panic"
    /\ overlap.g[1].out.err = NoError
    /\ "eth0" \in DOMAIN overlap.g[1].out.Interfaces
    /\ overlap.g[1].out.Interfaces["eth0"].RxRate = Rate(2048, 2)
    /\ overlap.c.traffic.lastTime = 3

\* C35: for the file the last Collect parsed, every line parseNetSnmp took
\* as a header is a header line, and the line it paired with it as values
\* carries the same protocol prefix.
C35_PairedByProtocol ==
    kernelSamples.called /\ kernelSamples.file.readable =>
        \A pr \in PairedLines(kernelSamples.file.lines) :
            /\ pr.header \in {TcpHeader, UdpHeader}
            /\ pr.values # <<>> => pr.values[1] = pr.header[1]

\* C36: in every successful Collect result, the rate of an interface that
\* was sampled before is its byte delta divided by the time since that
\* interface's own previous sample, also when the interface was absent from
\* samples in between (time having passed since the collector's last sample).
C36_OwnElapsed ==
    samples.ok /\ samples.time - samples.last > 0 =>
        \A n \in DOMAIN samples.counters \cap DOMAIN samples.prior :
            LET cur == samples.counters[n]
                prior == samples.prior[n]
                t == stats.Interfaces[n]
                elapsed == samples.time - prior.time
            IN  /\ (elapsed > 0 /\ cur.BytesRecv >= prior.BytesRecv) =>
                       RateEq(t.RxRate, Rate(cur.BytesRecv - prior.BytesRecv, elapsed))
                /\ (elapsed > 0 /\ cur.BytesSent >= prior.BytesSent) =>
                       RateEq(t.TxRate, Rate(cur.BytesSent - prior.BytesSent, elapsed))

\* Whether an invocation of the named command is outstanding
Outstanding(name) == \E c \in BagToSet(cmds) : c.cmd = name

\* C37: while the loop runs, LoadingDNS is set exactly when a DNS lookup is
\* outstanding and LoadingDNSPing exactly when a post-lookup ping is
\* outstanding, and when both a DNS result and a ping are shown the ping is
\* the one of the lookup whose result is shown.
C37_DNSFlagsExact ==
    Running =>
        /\ m.LoadingDNS <=> Outstanding("fetchDNS")
        /\ m.LoadingDNSPing <=> Outstanding("fetchSinglePing")
        /\ (m.DNSResult # None /\ m.DNSPing # None) => m.DNSPing.seq = m.DNSResult.seq

\* The named periodic probe has an invocation in flight
InFlight(cmd) == BagIn(cmd, cmds)

\* C38: a traffic probe in flight keeps its flag set and is the only one, so
\* none is spawned while it has not completed; and if from some point on it
\* never completes, then unless the user quits the tick stays scheduled,
\* kernel probes keep being started and their results handled, and the
\* connectivity probe and its timer keep alternating. The same with traffic
\* and kernel exchanged.
C38_ProbesIsolated ==
    /\ [](Running /\ InFlight(fetchTraffic) =>
              m.LoadingTraffic /\ CopiesIn(fetchTraffic, cmds) = 1)
    /\ [](Running /\ InFlight(fetchKernel) =>
              m.LoadingKernel /\ CopiesIn(fetchKernel, cmds) = 1)
    /\ [](Running => InFlight(tickTraffic))
    /\ []<>(quit \/ ~InFlight(fetchTraffic) \/ m.LoadingKernel)
    /\ []<>(quit \/ ~InFlight(fetchTraffic) \/ ~m.LoadingKernel)
    /\ []<>(quit \/ ~InFlight(fetchKernel) \/ m.LoadingTraffic)
    /\ []<>(quit \/ ~InFlight(fetchKernel) \/ ~m.LoadingTraffic)
    /\ []<>(quit \/ InFlight(fetchConnectivity))
    /\ []<>(quit \/ InFlight(connTick))

\* the first traffic probe is still in flight while a kernel sample and a
\* connectivity snapshot have been published and the next kernel probe runs
C38_Witness ==
    /\ Running
    /\ InFlight(fetchTraffic) /\ m.LoadingTraffic /\ m.Traffic = None
    /\ m.Kernel # None /\ InFlight(fetchKernel)
    /\ m.Connectivity # None /\ InFlight(connTick)

\* Keys that are a printable character
PrintableKeys == {k \in Keys \cup {"a", "1"} : IsRune(k)}

\* C39: on the DNS tab, a key press that is a printable character is
\* inserted in the focused text input and changes nothing else: no command
\* is returned (the program does not quit, no probe is spawned) and every
\* other field of the model, the active tab included, keeps its value.
C39_TypingOnlyTypes ==
    Running /\ m.ActiveTab = TabDNS =>
        \A k \in PrintableKeys :
            LET r == Update(m, KeyMsg(k))
            IN  /\ r.cmds = <<>>
                /\ r.m = IF m.DNSFocus = 0
                         THEN [m EXCEPT !.DNSInput = TextInputUpdate(m.DNSInput, k)]
                         ELSE [m EXCEPT !.DNSServerInput = TextInputUpdate(m.DNSServerInput, k)]

\* C40: a Collect whose read fails leaves the collector's stored values as
\* they were, so the first successful traffic sample after a failure takes
\* its rate against the last successful sample; and a Collect that read
\* /proc/net/snmp stores the counters it read, whether or not the socket dump
\* succeeded.
C40_FailedReadKeepsState ==
    [][/\ ~samples'.ok => trafficCollector' = trafficCollector
       /\ ~kernelSamples'.ok => kernelCollector' = kernelCollector
       /\ kernelSamples'.ok =>
              kernelCollector' = [lastRetrans |-> Counter(kernelSamples'.file, "RetransSegs"),
                                  lastOutSegs |-> Counter(kernelSamples'.file, "OutSegs")]
       /\ (~samples.ok /\ samples'.ok /\ samples.last # 0
              /\ samples'.time - samples.last > 0) =>
              /\ trafficCollector.lastTime = samples.last
              /\ \A n \in DOMAIN samples'.counters \cap DOMAIN trafficCollector.lastStats :
                     samples'.counters[n].BytesRecv >= trafficCollector.lastStats[n].BytesRecv =>
                         RateEq(stats'.Interfaces[n].RxRate,
                                Rate(samples'.counters[n].BytesRecv
                                       - samples.prior[n].BytesRecv,
                                     samples'.time - samples.last))
      ]_vars

\* the traffic read failed after a successful sample, which the collector
\* still holds, and the kernel collector stored the counters of a read whose
\* socket dump failed
C40_Witness ==
    /\ ~samples.ok /\ samples.last # 0 /\ samples.time > samples.last
    /\ stats.err # NoError
    /\ trafficCollector.lastTime = samples.last
    /\ "eth0" \in DOMAIN trafficCollector.lastStats
    /\ kernelSamples.ok /\ kernelStats.TCPEstablished = 0
    /\ kernelCollector = [lastRetrans |-> 15, lastOutSegs |-> 2000]

====
